---- MODULE Spec2Model ----
(***************************************************************************)
(* PipeAudit: the audit pipeline engine.                                   *)
(*                                                                         *)
(* The model covers the evidence ledger (collectors/evidence.rs), the      *)
(* audit context (rules/context.rs), the five default rules and the rule   *)
(* registry (rules/*.rs), the report builder (report/builder.rs) and the   *)
(* driver run_audit (main.rs).                                             *)
(*                                                                         *)
(* Conventions.                                                            *)
(*  - Strings are TLA+ strings; format!(..) is string concatenation.       *)
(*  - Option<T> is a tuple: <<>> for None, <<x>> for Some(x).              *)
(*  - f64 inputs (free_percent, read_amplification,                        *)
(*    max_merge_elapsed_sec) are drawn from whole numbers around the       *)
(*    thresholds, in the unit of the source; free_space is a whole number  *)
(*    of units of 2^30 bytes.                                              *)
(*  - A HashMap is a function on its set of keys; every iteration over a   *)
(*    HashMap takes a nondeterministically chosen order of its keys.       *)
(*  - Fields no operation of the engine reads (parts_count, total_rows,    *)
(*    path, total_space, collected_at, report_id, generated_at, ...) are   *)
(*    left out of the records.                                             *)
(***************************************************************************)
EXTENDS Integers, Sequences, FiniteSets, TLC

VARIABLES
    evidence,   \* ReportBuilder.evidence: the EvidenceCollector's Vec<Evidence>
    parts,      \* ReportBuilder.parts: HashMap<String, PartsMetrics>
    merges,     \* ReportBuilder.merges
    mutations,  \* ReportBuilder.mutations
    disk,       \* ReportBuilder.disk: Vec<DiskMetrics>
    queries,    \* ReportBuilder.queries: Vec<QueryMetrics>
    mv_dag,     \* ReportBuilder.mv_dag: Option<MvDagSection>
    findings,   \* ReportBuilder.findings
    actions,    \* ReportBuilder.actions
    phase,      \* "open" | "built" (build consumed the builder) | "panicked"
    report,     \* the Report build() returned, None before
    ctx,        \* run_rules / rule evaluation: the AuditContext last built
    results,    \* the Vec<RuleResult> last returned by an evaluation
    lastRule,   \* id of the rule last evaluated on its own, "none" before
    lastId,     \* the id EvidenceCollector::record last returned
    nWith,      \* history: number of with_* calls made on the builder
    nRun,       \* history: number of run_rules calls made on the builder
    pc,         \* run_audit: the statement the driver is at
    called,     \* run_audit: the client and collector calls made, in order
    ret,        \* run_audit: its return value, None while running
    file,       \* the content of the file at args.out
    tables,     \* build_dag: the TableRow list
    dependencies, \* build_dag: the DependencyRow list
    depths,     \* calculate_depths: HashMap<String, usize>
    changed,    \* calculate_depths: the flag of the while loop
    passes,     \* history: number of passes of the while loop made
    section,    \* the MvDagSection build_dag returned, None before
    rules,      \* RuleRegistry.rules: Vec<Box<dyn Rule>>
    json,       \* write_report: the JSON serde_json::to_string_pretty returned
    parsed      \* what serde_json::from_str returned for the file, None before

vars == <<evidence, parts, merges, mutations, disk, queries, mv_dag, findings,
          actions, phase, report, ctx, results, lastRule, lastId, nWith, nRun,
          pc, called, ret, file, tables, dependencies, depths, changed, passes,
          section, rules, json, parsed>>

builderVars == <<evidence, parts, merges, mutations, disk, queries, mv_dag,
                 findings, actions, phase, report, lastId, nWith, nRun>>
ruleVars == <<ctx, results, lastRule>>
auditVars == <<pc, called, ret, file>>
dagVars == <<tables, dependencies, depths, changed, passes, section>>
registryVars == <<rules>>
jsonVars == <<json, parsed>>

None == <<>>

\* build_dag has not been called
DagIdle ==
    /\ tables = <<>>
    /\ dependencies = <<>>
    /\ depths = <<>>
    /\ changed = FALSE
    /\ passes = 0
    /\ section = None

\* write_report has not been called and no file was read back
JsonIdle ==
    /\ json = None
    /\ parsed = None

-----------------------------------------------------------------------------
(* Bounds of the model *)

\* with_* and run_rules calls made on one builder in the free-use specification
MaxCalls == 3
\* record calls on one evidence ledger in the ledger specification
MaxLedger == 11
\* build_dag is given at most MaxDeps dependency rows
MaxDeps == 3
\* the while loop of calculate_depths is followed for at most MaxPasses passes
MaxPasses == 5
\* the query fingerprints have at most MaxFingerprint characters
MaxFingerprint == 84
\* a rule is registered only on a registry of fewer than MaxRules rules
MaxRules == 3

-----------------------------------------------------------------------------
(* Thresholds of the rule catalogue *)

PARTS_WARNING == 300
PARTS_CRITICAL == 1000
MERGE_QUEUE_WARNING == 10
MERGE_ELAPSED_WARNING_SEC == 3600
DISK_WARNING_PCT == 20
DISK_CRITICAL_PCT == 10
READ_AMP_WARNING == 100
READ_AMP_CRITICAL == 1000
MUTATION_STUCK_SEC == 3600
\* truncate_fingerprint: the longest fingerprint kept whole, and the bytes kept
FP_MAX_LEN == 80
FP_KEEP_LEN == 77

-----------------------------------------------------------------------------
(* Helpers *)

\* The set of values of a sequence
Range(s) == {s[i] : i \in 1..Len(s)}

\* All the orders in which a HashMap with key set S may be iterated
Orders(S) ==
    {o \in [1..Cardinality(S) -> S] : \A i, j \in 1..Cardinality(S) : o[i] = o[j] => i = j}

\* format!("{}.{}", database, table)
TableKey(database, table) == database \o "." \o table

\* str::trim on the SQL text
IsSpace(c) == c \in {" ", "\n", "\t"}

RECURSIVE TrimStart(_)
TrimStart(s) ==
    IF Len(s) > 0 /\ IsSpace(SubSeq(s, 1, 1)) THEN TrimStart(SubSeq(s, 2, Len(s))) ELSE s

RECURSIVE TrimEnd(_)
TrimEnd(s) ==
    IF Len(s) > 0 /\ IsSpace(SubSeq(s, Len(s), Len(s)))
    THEN TrimEnd(SubSeq(s, 1, Len(s) - 1))
    ELSE s

Trim(s) == TrimEnd(TrimStart(s))

\* Option<T>: None is the empty tuple, Some(x) the tuple of x
Some(x) == <<x>>

-----------------------------------------------------------------------------
(* Evidence ledger: collectors/evidence.rs *)

\* Mutant of Pad3: two zeros are written before every number
Pad3Fixed(n) == "00" \o ToString(n)

\* format!("{:03}", n): decimal, zero-padded to a minimum width of three
Pad3(n) ==
    IF n < 10 THEN "00" \o ToString(n)
    ELSE IF n < 100 THEN "0" \o ToString(n)
    ELSE ToString(n)

\* the id record assigns: format!("ev-{:03}", self.evidence.len() + 1)
EvidenceId(ledger) == "ev-" \o Pad3(Len(ledger) + 1)

\* EvidenceCollector::record: the ledger after the call (the id is EvidenceId)
Record(ledger, source, sql) ==
    Append(ledger, [id |-> EvidenceId(ledger), source |-> source, sql |-> Trim(sql)])

\* EvidenceCollector::get_all
GetAll(ledger) == ledger

-----------------------------------------------------------------------------
(* Audit context: rules/context.rs *)

\* HashMap::new() and HashMap::insert (the last writer of a key wins)
EmptyMap == <<>>

Insert(map, key, value) ==
    [k \in (DOMAIN map) \cup {key} |-> IF k = key THEN value ELSE map[k]]

\* AuditContext::new
NewContext ==
    [parts |-> EmptyMap, merges |-> EmptyMap, mutations |-> EmptyMap,
     disk |-> <<>>, queries |-> <<>>]

\* AuditContext::add_parts, add_merges, add_mutations
add_parts(c, metrics) ==
    [c EXCEPT !.parts = Insert(@, TableKey(metrics.database, metrics.table), metrics)]

add_merges(c, metrics) ==
    [c EXCEPT !.merges = Insert(@, TableKey(metrics.database, metrics.table), metrics)]

add_mutations(c, metrics) ==
    [c EXCEPT !.mutations = Insert(@, TableKey(metrics.database, metrics.table), metrics)]

\* AuditContext::set_disk, set_queries
set_disk(c, metrics) == [c EXCEPT !.disk = metrics]

set_queries(c, metrics) == [c EXCEPT !.queries = metrics]

-----------------------------------------------------------------------------
(* The five default rules: rules/parts.rs, merges.rs, disk.rs, query.rs,   *)
(* mutations.rs.  Each evaluate is the loop of the source: `rs` is the     *)
(* results vector so far, `ord` the keys or the records still to visit.    *)

\* {:.0} and {:.1} of an f64 whose value is a whole number
FmtF0(v) == ToString(v)

FmtF1(v) == ToString(v) \o ".0"

\* The RuleResult a rule pushes: one finding and the one action that refers
\* to it; n is results.len() + 1 at the push
\* Mutant of RuleResultOf: the ids are numbered from 0
RuleResultOfFromZero(prefix, n, rule_id, severity, target, message, priority, description, sql) ==
    [finding |->
        [id |-> "f-" \o prefix \o "-" \o ToString(n - 1),
         rule_id |-> rule_id,
         severity |-> severity,
         target |-> target,
         message |-> message,
         evidence_refs |-> <<>>,
         confidence |-> 1],
     actions |->
        <<[id |-> "a-" \o prefix \o "-" \o ToString(n - 1),
           finding_ref |-> "f-" \o prefix \o "-" \o ToString(n - 1),
           action_type |-> "recommendation",
           priority |-> priority,
           description |-> description,
           sql |-> sql]>>]

\* Mutant of RuleResultOf: the action of a warning has the priority low
RuleResultOfLowPriority(prefix, n, rule_id, severity, target, message, priority, description, sql) ==
    [finding |->
        [id |-> "f-" \o prefix \o "-" \o ToString(n),
         rule_id |-> rule_id,
         severity |-> severity,
         target |-> target,
         message |-> message,
         evidence_refs |-> <<>>,
         confidence |-> 1],
     actions |->
        <<[id |-> "a-" \o prefix \o "-" \o ToString(n),
           finding_ref |-> "f-" \o prefix \o "-" \o ToString(n),
           action_type |-> "recommendation",
           priority |-> IF severity = "warning" THEN "low" ELSE priority,
           description |-> description,
           sql |-> sql]>>]

\* The RuleResult a default rule pushes: one finding and one action
RuleResultOf(prefix, n, rule_id, severity, target, message, priority, description, sql) ==
    [finding |->
        [id |-> "f-" \o prefix \o "-" \o ToString(n),
         rule_id |-> rule_id,
         severity |-> severity,
         target |-> target,
         message |-> message,
         evidence_refs |-> <<>>,
         confidence |-> 1],
     actions |->
        <<[id |-> "a-" \o prefix \o "-" \o ToString(n),
           finding_ref |-> "f-" \o prefix \o "-" \o ToString(n),
           action_type |-> "recommendation",
           priority |-> priority,
           description |-> description,
           sql |-> sql]>>]

\* Mutant of PartsIsWarning: the comparison is not strict
PartsIsWarningInclusive(active_parts) == active_parts >= PARTS_WARNING

\* parts.rs:26 and parts.rs:49
PartsIsCritical(active_parts) == active_parts > PARTS_CRITICAL

PartsIsWarning(active_parts) == active_parts > PARTS_WARNING

RECURSIVE PartsExplosionLoop(_, _, _)
PartsExplosionLoop(c, ord, rs) ==
    IF ord = <<>> THEN rs
    ELSE
        LET table_key == Head(ord)
            active_parts == c.parts[table_key].active_parts
            n == Len(rs) + 1
        IN  PartsExplosionLoop(c, Tail(ord),
                IF PartsIsCritical(active_parts) THEN
                    Append(rs, RuleResultOf("parts", n, "parts_explosion", "critical", table_key,
                        "Table has " \o ToString(active_parts)
                            \o " active parts, exceeding critical threshold of "
                            \o ToString(PARTS_CRITICAL),
                        "high", "Run OPTIMIZE TABLE to reduce parts count",
                        Some("OPTIMIZE TABLE " \o table_key \o " FINAL")))
                ELSE IF PartsIsWarning(active_parts) THEN
                    Append(rs, RuleResultOf("parts", n, "parts_explosion", "warning", table_key,
                        "Table has " \o ToString(active_parts)
                            \o " active parts, exceeding warning threshold of "
                            \o ToString(PARTS_WARNING),
                        "medium", "Consider running OPTIMIZE TABLE to reduce parts",
                        Some("OPTIMIZE TABLE " \o table_key \o " FINAL")))
                ELSE rs)

\* PartsExplosionRule::evaluate, iterating ctx.parts in the order ord
PartsExplosionEvaluate(c, ord) == PartsExplosionLoop(c, ord, <<>>)

\* merges.rs:23 and merges.rs:24
\* Mutant of QueueHigh: the comparison is not strict
QueueHighInclusive(metrics) == metrics.merges_in_queue >= MERGE_QUEUE_WARNING

\* merges.rs:23
QueueHigh(metrics) == metrics.merges_in_queue > MERGE_QUEUE_WARNING

ElapsedHigh(metrics) == metrics.max_merge_elapsed_sec > MERGE_ELAPSED_WARNING_SEC

\* merges.rs:27-42
MergeMessage(metrics) ==
    IF QueueHigh(metrics) /\ ElapsedHigh(metrics) THEN
        "Merge queue has " \o ToString(metrics.merges_in_queue)
            \o " items and longest merge running for "
            \o FmtF0(metrics.max_merge_elapsed_sec) \o "s"
    ELSE IF QueueHigh(metrics) THEN
        "Merge queue has " \o ToString(metrics.merges_in_queue)
            \o " items (threshold: " \o ToString(MERGE_QUEUE_WARNING) \o ")"
    ELSE
        "Longest merge running for " \o FmtF0(metrics.max_merge_elapsed_sec)
            \o "s (threshold: " \o FmtF0(MERGE_ELAPSED_WARNING_SEC) \o "s)"

RECURSIVE MergeBacklogLoop(_, _, _)
MergeBacklogLoop(c, ord, rs) ==
    IF ord = <<>> THEN rs
    ELSE
        LET table_key == Head(ord)
            metrics == c.merges[table_key]
            n == Len(rs) + 1
        IN  MergeBacklogLoop(c, Tail(ord),
                IF QueueHigh(metrics) \/ ElapsedHigh(metrics) THEN
                    Append(rs, RuleResultOf("merge", n, "merge_backlog", "warning", table_key,
                        MergeMessage(metrics),
                        "medium", "Review write rate, consider throttling ingestion", None))
                ELSE rs)

\* MergeBacklogRule::evaluate, iterating ctx.merges in the order ord
MergeBacklogEvaluate(c, ord) == MergeBacklogLoop(c, ord, <<>>)

\* Mutant of DiskIsCritical: the comparison is not strict
DiskIsCriticalInclusive(free_pct) == free_pct <= DISK_CRITICAL_PCT

\* disk.rs:26 and disk.rs:49
DiskIsCritical(free_pct) == free_pct < DISK_CRITICAL_PCT

DiskIsWarning(free_pct) == free_pct < DISK_WARNING_PCT

\* disk.rs:24: free_gb = free_space as f64 / 1_073_741_824.0; the model holds
\* free_space in units of 1_073_741_824 bytes
FreeGb(d) == d.free_space

\* disk.rs:33-36 and 56-59
DiskMessage(d) ==
    "Disk " \o d.disk_name \o " has only " \o FmtF1(d.free_percent) \o "% free ("
        \o FmtF1(FreeGb(d)) \o "GB)"

RECURSIVE DiskHeadroomLoop(_, _)
DiskHeadroomLoop(ds, rs) ==
    IF ds = <<>> THEN rs
    ELSE
        LET d == Head(ds)
            free_pct == d.free_percent
            n == Len(rs) + 1
        IN  DiskHeadroomLoop(Tail(ds),
                IF DiskIsCritical(free_pct) THEN
                    Append(rs, RuleResultOf("disk", n, "disk_headroom", "critical", d.disk_name,
                        DiskMessage(d),
                        "high", "Expand storage or implement TTL policy urgently", None))
                ELSE IF DiskIsWarning(free_pct) THEN
                    Append(rs, RuleResultOf("disk", n, "disk_headroom", "warning", d.disk_name,
                        DiskMessage(d),
                        "medium", "Consider expanding storage or implementing TTL", None))
                ELSE rs)

\* DiskHeadroomRule::evaluate
DiskHeadroomEvaluate(c) == DiskHeadroomLoop(c.disk, <<>>)

\* query.rs:25 and query.rs:48
AmpIsCritical(amp) == amp > READ_AMP_CRITICAL

AmpIsWarning(amp) == amp > READ_AMP_WARNING

\* The number of bytes of a character in UTF-8: the fingerprints of the model
\* are written with ASCII characters and with these two-byte ones
TwoByteChars == {"é", "ü", "ß"}

ByteWidth(ch) == IF ch \in TwoByteChars THEN 2 ELSE 1

\* str::len: the length in bytes
RECURSIVE ByteLen(_)
ByteLen(str) ==
    IF Len(str) = 0 THEN 0
    ELSE ByteWidth(SubSeq(str, 1, 1)) + ByteLen(SubSeq(str, 2, Len(str)))

\* str::is_char_boundary(n): some prefix of whole characters has n bytes
IsCharBoundary(str, n) == \E k \in 0..Len(str) : ByteLen(SubSeq(str, 1, k)) = n

\* &str[..n] where n is a character boundary
ByteSlice(str, n) ==
    LET k == CHOOSE k \in 0..Len(str) : ByteLen(SubSeq(str, 1, k)) = n
    IN  SubSeq(str, 1, k)

\* truncate_fingerprint panics: the slice &fp[..77] ends inside a character
TruncatePanics(fp) == ByteLen(fp) > FP_MAX_LEN /\ ~IsCharBoundary(fp, FP_KEEP_LEN)

\* truncate_fingerprint, when it returns
truncate_fingerprint(fp) ==
    IF ByteLen(fp) > FP_MAX_LEN THEN ByteSlice(fp, FP_KEEP_LEN) \o "..." ELSE fp

RECURSIVE QueryAmplificationLoop(_, _)
QueryAmplificationLoop(qs, rs) ==
    IF qs = <<>> THEN rs
    ELSE
        LET query == Head(qs)
            amp == query.read_amplification
            n == Len(rs) + 1
        IN  QueryAmplificationLoop(Tail(qs),
                IF AmpIsCritical(amp) THEN
                    Append(rs, RuleResultOf("query", n, "query_amplification", "critical",
                        truncate_fingerprint(query.query_fingerprint),
                        "Query has " \o FmtF0(amp) \o "x read amplification (critical threshold: "
                            \o FmtF0(READ_AMP_CRITICAL) \o "x)",
                        "high", "Review query, add PREWHERE or adjust ORDER BY", None))
                ELSE IF AmpIsWarning(amp) THEN
                    Append(rs, RuleResultOf("query", n, "query_amplification", "warning",
                        truncate_fingerprint(query.query_fingerprint),
                        "Query has " \o FmtF0(amp) \o "x read amplification (warning threshold: "
                            \o FmtF0(READ_AMP_WARNING) \o "x)",
                        "medium", "Consider optimizing query pattern", None))
                ELSE rs)

\* QueryAmplificationRule::evaluate, when no truncate_fingerprint panics
QueryAmplificationEvaluate(c) == QueryAmplificationLoop(c.queries, <<>>)

\* QueryAmplificationRule::evaluate panics: a record that triggers has a
\* fingerprint on which truncate_fingerprint panics
QueryAmplificationPanics(c) ==
    \E i \in 1..Len(c.queries) :
        /\ AmpIsCritical(c.queries[i].read_amplification)
            \/ AmpIsWarning(c.queries[i].read_amplification)
        /\ TruncatePanics(c.queries[i].query_fingerprint)

\* Mutant of MutationIsStuck: the number of active mutations is not looked at
MutationIsStuckAnyCount(metrics) ==
    /\ metrics.oldest_active_mutation_age_sec # None
    /\ metrics.oldest_active_mutation_age_sec[1] > MUTATION_STUCK_SEC

\* mutations.rs:22-24
MutationIsStuck(metrics) ==
    /\ metrics.active_mutations > 0
    /\ metrics.oldest_active_mutation_age_sec # None
    /\ metrics.oldest_active_mutation_age_sec[1] > MUTATION_STUCK_SEC

\* {:.1} of hours = age as f64 / 3600.0, to the nearest tenth (the ages of
\* the model are never half way between two tenths)
SECONDS_PER_HOUR == 3600

FmtHours(age) ==
    LET tenths == (age * 10 + SECONDS_PER_HOUR \div 2) \div SECONDS_PER_HOUR
    IN  ToString(tenths \div 10) \o "." \o ToString(tenths % 10)

\* Mutant of MutationSql: the query is not narrowed to the table
MutationSqlAllTables(metrics) ==
    "SELECT * FROM system.mutations WHERE database = '"
        \o metrics.database \o "' AND is_done = 0"

\* mutations.rs:45-48
MutationSql(metrics) ==
    "SELECT * FROM system.mutations WHERE database = '"
        \o metrics.database \o "' AND table = '" \o metrics.table
        \o "' AND is_done = 0"

RECURSIVE StuckMutationLoop(_, _, _)
StuckMutationLoop(c, ord, rs) ==
    IF ord = <<>> THEN rs
    ELSE
        LET table_key == Head(ord)
            metrics == c.mutations[table_key]
            n == Len(rs) + 1
        IN  StuckMutationLoop(c, Tail(ord),
                IF MutationIsStuck(metrics) THEN
                    Append(rs, RuleResultOf("mutation", n, "stuck_mutation", "critical", table_key,
                        "Mutation running for "
                            \o FmtHours(metrics.oldest_active_mutation_age_sec[1])
                            \o " hours (threshold: 1 hour)",
                        "high", "Investigate mutation, consider KILL MUTATION if stuck",
                        Some(MutationSql(metrics))))
                ELSE rs)

\* StuckMutationRule::evaluate, iterating ctx.mutations in the order ord
StuckMutationEvaluate(c, ord) == StuckMutationLoop(c, ord, <<>>)

-----------------------------------------------------------------------------
(* Rule engine and registry: rules/engine.rs, rules/mod.rs *)

\* A registered rule (Box<dyn Rule>): the implementing type, what id() returns
\* and, for an implementation outside the rule set, what evaluate returns
BuiltinRule(impl, id) == [impl |-> impl, id |-> id, out |-> <<>>]

CustomRule(id, out) == [impl |-> "custom", id |-> id, out |-> out]

PartsExplosionRule == BuiltinRule("PartsExplosionRule", "parts_explosion")
MergeBacklogRule == BuiltinRule("MergeBacklogRule", "merge_backlog")
DiskHeadroomRule == BuiltinRule("DiskHeadroomRule", "disk_headroom")
QueryAmplificationRule == BuiltinRule("QueryAmplificationRule", "query_amplification")
StuckMutationRule == BuiltinRule("StuckMutationRule", "stuck_mutation")

\* RuleRegistry::new and RuleRegistry::register
NewRegistry == <<>>

register(registry, rule) == Append(registry, rule)

\* RuleRegistry::with_default_rules
with_default_rules ==
    register(register(register(register(register(NewRegistry,
        PartsExplosionRule), MergeBacklogRule), DiskHeadroomRule),
        QueryAmplificationRule), StuckMutationRule)

\* The iteration orders of the three maps of a context
MapOrders(c) ==
    [parts : Orders(DOMAIN c.parts), merges : Orders(DOMAIN c.merges),
     mutations : Orders(DOMAIN c.mutations)]

\* Rule::evaluate, dispatched on the implementing type
Evaluate(rule, c, ords) ==
    CASE rule.impl = "PartsExplosionRule" -> PartsExplosionEvaluate(c, ords.parts)
      [] rule.impl = "MergeBacklogRule" -> MergeBacklogEvaluate(c, ords.merges)
      [] rule.impl = "DiskHeadroomRule" -> DiskHeadroomEvaluate(c)
      [] rule.impl = "QueryAmplificationRule" -> QueryAmplificationEvaluate(c)
      [] rule.impl = "StuckMutationRule" -> StuckMutationEvaluate(c, ords.mutations)
      [] OTHER -> rule.out

EvaluatePanics(rule, c) ==
    rule.impl = "QueryAmplificationRule" /\ QueryAmplificationPanics(c)

\* Mutant of evaluate_all: the rules are taken from the last registered to
\* the first
RECURSIVE evaluate_all_reversed(_, _, _)
evaluate_all_reversed(registry, c, ords) ==
    IF registry = <<>> THEN <<>>
    ELSE evaluate_all_reversed(Tail(registry), c, ords) \o Evaluate(Head(registry), c, ords)

\* RuleRegistry::evaluate_all: flat_map over the rules in registration order
RECURSIVE evaluate_all(_, _, _)
evaluate_all(registry, c, ords) ==
    IF registry = <<>> THEN <<>>
    ELSE Evaluate(Head(registry), c, ords) \o evaluate_all(Tail(registry), c, ords)

EvaluateAllPanics(registry, c) ==
    \E i \in 1..Len(registry) : EvaluatePanics(registry[i], c)

\* RuleRegistry::rule_ids
rule_ids(registry) == [i \in 1..Len(registry) |-> registry[i].id]

-----------------------------------------------------------------------------
(* Report builder: report/builder.rs *)

\* Mutant of InsertAll: a key that is already stored keeps its record
RECURSIVE InsertAllKeepFirst(_, _)
InsertAllKeepFirst(map, metrics) ==
    IF metrics = <<>> THEN map
    ELSE LET key == TableKey(Head(metrics).database, Head(metrics).table)
         IN  InsertAllKeepFirst(IF key \in DOMAIN map THEN map
                                ELSE Insert(map, key, Head(metrics)),
                                Tail(metrics))

\* for m in metrics { self.<map>.insert(format!("{}.{}", m.database, m.table), m) }
RECURSIVE InsertAll(_, _)
InsertAll(map, metrics) ==
    IF metrics = <<>> THEN map
    ELSE InsertAll(Insert(map, TableKey(Head(metrics).database, Head(metrics).table),
                          Head(metrics)),
                   Tail(metrics))

\* self.evidence.record(source, sql), the first statement of every with_*
RecordEvidence(source, sql) ==
    /\ evidence' = Record(evidence, source, sql)
    /\ lastId' = EvidenceId(evidence)

\* ReportBuilder::with_parts
with_parts(metrics, sql) ==
    /\ phase = "open"
    /\ RecordEvidence("system.parts", sql)
    /\ nWith' = nWith + 1
    /\ parts' = InsertAll(parts, metrics)
    /\ UNCHANGED <<merges, mutations, disk, queries, mv_dag, findings, actions,
                   phase, report, nRun, ruleVars>>

\* ReportBuilder::with_merges
with_merges(metrics, sql) ==
    /\ phase = "open"
    /\ RecordEvidence("system.merges", sql)
    /\ nWith' = nWith + 1
    /\ merges' = InsertAll(merges, metrics)
    /\ UNCHANGED <<parts, mutations, disk, queries, mv_dag, findings, actions,
                   phase, report, nRun, ruleVars>>

\* ReportBuilder::with_mutations
with_mutations(metrics, sql) ==
    /\ phase = "open"
    /\ RecordEvidence("system.mutations", sql)
    /\ nWith' = nWith + 1
    /\ mutations' = InsertAll(mutations, metrics)
    /\ UNCHANGED <<parts, merges, disk, queries, mv_dag, findings, actions,
                   phase, report, nRun, ruleVars>>

\* Mutant of with_disk: no evidence is recorded for an empty result
with_disk_skip_empty(metrics, sql) ==
    /\ phase = "open"
    /\ IF metrics = <<>>
       THEN UNCHANGED <<evidence, lastId>>
       ELSE RecordEvidence("system.disks", sql)
    /\ nWith' = nWith + 1
    /\ disk' = metrics
    /\ UNCHANGED <<parts, merges, mutations, queries, mv_dag, findings, actions,
                   phase, report, nRun, ruleVars>>

\* ReportBuilder::with_disk
with_disk(metrics, sql) ==
    /\ phase = "open"
    /\ RecordEvidence("system.disks", sql)
    /\ nWith' = nWith + 1
    /\ disk' = metrics
    /\ UNCHANGED <<parts, merges, mutations, queries, mv_dag, findings, actions,
                   phase, report, nRun, ruleVars>>

\* ReportBuilder::with_queries
with_queries(metrics, sql) ==
    /\ phase = "open"
    /\ RecordEvidence("system.query_log", sql)
    /\ nWith' = nWith + 1
    /\ queries' = metrics
    /\ UNCHANGED <<parts, merges, mutations, disk, mv_dag, findings, actions,
                   phase, report, nRun, ruleVars>>

\* ReportBuilder::with_mv_dag
\* Mutant of with_mv_dag: one evidence entry for each of the two queries
with_mv_dag_per_query(dag, sql) ==
    /\ phase = "open"
    /\ evidence' = Record(Record(evidence, "system.tables", sql), "system.tables", sql)
    /\ lastId' = EvidenceId(Record(evidence, "system.tables", sql))
    /\ nWith' = nWith + 1
    /\ mv_dag' = Some(dag)
    /\ UNCHANGED <<parts, merges, mutations, disk, queries, findings, actions,
                   phase, report, nRun, ruleVars>>

\* ReportBuilder::with_mv_dag
with_mv_dag(dag, sql) ==
    /\ phase = "open"
    /\ RecordEvidence("system.tables", sql)
    /\ nWith' = nWith + 1
    /\ mv_dag' = Some(dag)
    /\ UNCHANGED <<parts, merges, mutations, disk, queries, findings, actions,
                   phase, report, nRun, ruleVars>>

\* One order of the keys of a map, for the loops whose result does not
\* depend on the order
SomeOrder(map) == CHOOSE o \in Orders(DOMAIN map) : TRUE

RECURSIVE AddAll(_, _, _, _)
AddAll(c, map, ord, kind) ==
    IF ord = <<>> THEN c
    ELSE AddAll(CASE kind = "parts" -> add_parts(c, map[Head(ord)])
                  [] kind = "merges" -> add_merges(c, map[Head(ord)])
                  [] OTHER -> add_mutations(c, map[Head(ord)]),
                map, Tail(ord), kind)

\* ReportBuilder::build_context.  Each stored record is added under the key
\* computed from its own database and table, which is the key it is stored
\* under, so every order of values() builds the same context.
build_context ==
    LET c1 == AddAll(NewContext, parts, SomeOrder(parts), "parts")
        c2 == AddAll(c1, merges, SomeOrder(merges), "merges")
        c3 == AddAll(c2, mutations, SomeOrder(mutations), "mutations")
    IN  set_queries(set_disk(c3, disk), queries)

\* the findings and the actions of a result vector, as run_rules appends them
FindingsOf(rs) == [i \in 1..Len(rs) |-> rs[i].finding]

RECURSIVE ActionsOf(_)
ActionsOf(rs) == IF rs = <<>> THEN <<>> ELSE Head(rs).actions \o ActionsOf(Tail(rs))

\* Mutant of run_rules: the context is built by draining the stored parts
run_rules_draining(registry) ==
    /\ phase = "open"
    /\ LET c == build_context
       IN  /\ ctx' = c
           /\ IF EvaluateAllPanics(registry, c)
              THEN /\ phase' = "panicked"
                   /\ UNCHANGED <<results, findings, actions>>
              ELSE \E ords \in MapOrders(c) :
                        LET rs == evaluate_all(registry, c, ords)
                        IN  /\ results' = rs
                            /\ findings' = findings \o FindingsOf(rs)
                            /\ actions' = actions \o ActionsOf(rs)
                            /\ phase' = phase
    /\ nRun' = nRun + 1
    /\ parts' = EmptyMap
    /\ UNCHANGED <<evidence, merges, mutations, disk, queries, mv_dag,
                   report, lastRule, lastId, nWith>>

\* ReportBuilder::run_rules.  A panic of a rule unwinds out of run_rules
\* before anything is appended.
run_rules(registry) ==
    /\ phase = "open"
    /\ LET c == build_context
       IN  /\ ctx' = c
           /\ IF EvaluateAllPanics(registry, c)
              THEN /\ phase' = "panicked"
                   /\ UNCHANGED <<results, findings, actions>>
              ELSE \E ords \in MapOrders(c) :
                        LET rs == evaluate_all(registry, c, ords)
                        IN  /\ results' = rs
                            /\ findings' = findings \o FindingsOf(rs)
                            /\ actions' = actions \o ActionsOf(rs)
                            /\ phase' = phase
    /\ nRun' = nRun + 1
    /\ UNCHANGED <<evidence, parts, merges, mutations, disk, queries, mv_dag,
                   report, lastRule, lastId, nWith>>

\* Mutant of CountSeverity: equal findings are counted once
CountSeverityDistinct(fs, severity) ==
    Cardinality({fs[i] : i \in {j \in 1..Len(fs) : fs[j].severity = severity}})

\* builder.rs:166-175
CountSeverity(fs, severity) ==
    Cardinality({i \in 1..Len(fs) : fs[i].severity = severity})

\* Mutant of SummaryStatus: the warning count is looked at first
SummaryStatusWarningFirst(critical_count, warning_count) ==
    IF warning_count > 0 THEN "warning"
    ELSE IF critical_count > 0 THEN "critical"
    ELSE "healthy"

\* builder.rs:178-184
SummaryStatus(critical_count, warning_count) ==
    IF critical_count > 0 THEN "critical"
    ELSE IF warning_count > 0 THEN "warning"
    ELSE "healthy"

\* builder.rs:177-188
SummaryOf(fs) ==
    [status |-> SummaryStatus(CountSeverity(fs, "critical"), CountSeverity(fs, "warning")),
     findings_count |-> Len(fs),
     critical_count |-> CountSeverity(fs, "critical"),
     warning_count |-> CountSeverity(fs, "warning")]

\* Mutant of MapSection: the section is built of an empty map too
MapSectionAlways(map, ord) == Some([i \in 1..Len(ord) |-> map[ord[i]]])

\* builder.rs:125-157: a section built from a map, its tables in the order
\* ord of into_values(), or from a vector
MapSection(map, ord) ==
    IF DOMAIN map = {} THEN None ELSE Some([i \in 1..Len(ord) |-> map[ord[i]]])

VecSection(vec) == IF vec = <<>> THEN None ELSE Some(vec)

\* ReportBuilder::build
build ==
    /\ phase = "open"
    /\ \E ords \in [parts : Orders(DOMAIN parts), merges : Orders(DOMAIN merges),
                    mutations : Orders(DOMAIN mutations)] :
          report' = Some(
            [report_version |-> "1.0.0",
             summary |-> SummaryOf(findings),
             sections |->
                [parts |-> MapSection(parts, ords.parts),
                 merges |-> MapSection(merges, ords.merges),
                 mutations |-> MapSection(mutations, ords.mutations),
                 disk |-> VecSection(disk),
                 query_log |-> VecSection(queries),
                 mv_dag |-> mv_dag],
             findings |-> findings,
             actions |-> actions,
             evidence |-> GetAll(evidence)])
    /\ phase' = "built"
    /\ UNCHANGED <<evidence, parts, merges, mutations, disk, queries, mv_dag,
                   findings, actions, lastId, nWith, nRun, ruleVars>>

-----------------------------------------------------------------------------
(* Inputs *)

\* The metric records (report/types.rs), with the fields the engine reads
PartsMetrics(database, table, active_parts) ==
    [database |-> database, table |-> table, active_parts |-> active_parts]

MergeMetrics(database, table, merges_in_queue, max_merge_elapsed_sec) ==
    [database |-> database, table |-> table, merges_in_queue |-> merges_in_queue,
     max_merge_elapsed_sec |-> max_merge_elapsed_sec]

MutationMetrics(database, table, active_mutations, oldest_active_mutation_age_sec) ==
    [database |-> database, table |-> table, active_mutations |-> active_mutations,
     oldest_active_mutation_age_sec |-> oldest_active_mutation_age_sec]

DiskMetrics(disk_name, free_space, free_percent) ==
    [disk_name |-> disk_name, free_space |-> free_space, free_percent |-> free_percent]

QueryMetrics(query_fingerprint, read_amplification) ==
    [query_fingerprint |-> query_fingerprint, read_amplification |-> read_amplification]

\* An MvDagSection (a DAG without nodes, and the chain events -> events_daily)
EmptyDag ==
    [nodes |-> <<>>, edges |-> <<>>, max_depth |-> 0, total_tables |-> 0, total_mvs |-> 0]

ChainDag ==
    [nodes |-> <<[name |-> "events", database |-> "testdb", table_type |-> "table",
                  engine |-> "MergeTree", depth |-> 0],
                 [name |-> "events_daily", database |-> "testdb",
                  table_type |-> "materialized_view", engine |-> "MaterializedView",
                  depth |-> 1]>>,
     edges |-> <<[from |-> "testdb.events", to |-> "testdb.events_daily"]>>,
     max_depth |-> 1, total_tables |-> 1, total_mvs |-> 1]

\* What the callers of the builder pass in the free-use specification
PartsInputs ==
    {<<>>,
     <<PartsMetrics("testdb", "events", 100)>>,
     <<PartsMetrics("testdb", "events", 1500)>>,
     <<PartsMetrics("testdb", "events", 500), PartsMetrics("testdb", "logs", 1500)>>,
     <<PartsMetrics("testdb", "events", 1500), PartsMetrics("testdb", "events", 100)>>}

MergesInputs ==
    {<<>>,
     <<MergeMetrics("testdb", "events", 5, 100)>>,
     <<MergeMetrics("testdb", "events", 15, 100), MergeMetrics("testdb", "logs", 15, 7200)>>}

MutationsInputs ==
    {<<>>,
     <<MutationMetrics("testdb", "events", 0, None)>>,
     <<MutationMetrics("testdb", "events", 1, Some(7200))>>}

DiskInputs ==
    {<<>>,
     <<DiskMetrics("default", 50, 50)>>,
     <<DiskMetrics("default", 15, 15)>>}

QueriesInputs ==
    {<<>>,
     <<QueryMetrics("SELECT ? FROM events", 50)>>,
     <<QueryMetrics("SELECT ? FROM events", 5000)>>}

DagInputs == {EmptyDag, ChainDag}

\* The SQL text a collector hands over: its query template, with the line
\* breaks and the indentation of the raw string around it
SqlOf(source) == "\n    SELECT * FROM " \o source \o "\n    "

\* The result of a rule implemented outside the rule set: MockRule of
\* engine.rs (one finding, no action), and rules whose actions name a finding
MockFinding(id, severity) ==
    [id |-> id, rule_id |-> "mock_rule", severity |-> severity, target |-> "test",
     message |-> "Mock finding", evidence_refs |-> <<>>, confidence |-> 1]

MockAction(id, finding_ref) ==
    [id |-> id, finding_ref |-> finding_ref, action_type |-> "ddl_proposal",
     priority |-> "low", description |-> "Mock action", sql |-> None]

CustomOutputs ==
    {<<>>,
     <<[finding |-> MockFinding("f-mock", "warning"), actions |-> <<>>]>>,
     <<[finding |-> MockFinding("f-mock", "critical"),
        actions |-> <<MockAction("a-mock-1", "f-mock"), MockAction("a-mock-2", "f-mock")>>]>>,
     <<[finding |-> MockFinding("f-mock", "warning"),
        actions |-> <<MockAction("a-mock-1", "f-other")>>]>>}

\* The registries passed to run_rules
Registries ==
    {with_default_rules}
        \cup {register(NewRegistry, CustomRule("mock_rule", out)) : out \in CustomOutputs}

-----------------------------------------------------------------------------
(* The builder, used freely: any with_* and run_rules calls, then build *)

Init ==
    /\ evidence = <<>>
    /\ parts = EmptyMap
    /\ merges = EmptyMap
    /\ mutations = EmptyMap
    /\ disk = <<>>
    /\ queries = <<>>
    /\ mv_dag = None
    /\ findings = <<>>
    /\ actions = <<>>
    /\ phase = "open"
    /\ report = None
    /\ ctx = NewContext
    /\ results = <<>>
    /\ lastRule = "none"
    /\ lastId = ""
    /\ nWith = 0
    /\ nRun = 0
    /\ pc = "idle"
    /\ called = <<>>
    /\ ret = None
    /\ file = [kind |-> "absent", report |-> None]
    /\ DagIdle
    /\ JsonIdle
    /\ rules = NewRegistry

CallsLeft == nWith + nRun < MaxCalls

\* The caller's call is logged with the metrics it supplies
Supplied(call, metrics) == Append(called, [call |-> call, metrics |-> metrics])

WithParts ==
    /\ CallsLeft
    /\ \E metrics \in PartsInputs :
          /\ with_parts(metrics, SqlOf("system.parts"))
          /\ called' = Supplied("with_parts", metrics)
    /\ UNCHANGED <<pc, ret, file, dagVars, registryVars, jsonVars>>

WithMerges ==
    /\ CallsLeft
    /\ \E metrics \in MergesInputs :
          /\ with_merges(metrics, SqlOf("system.merges"))
          /\ called' = Supplied("with_merges", metrics)
    /\ UNCHANGED <<pc, ret, file, dagVars, registryVars, jsonVars>>

WithMutations ==
    /\ CallsLeft
    /\ \E metrics \in MutationsInputs :
          /\ with_mutations(metrics, SqlOf("system.mutations"))
          /\ called' = Supplied("with_mutations", metrics)
    /\ UNCHANGED <<pc, ret, file, dagVars, registryVars, jsonVars>>

WithDisk ==
    /\ CallsLeft
    /\ \E metrics \in DiskInputs :
          /\ with_disk(metrics, SqlOf("system.disks"))
          /\ called' = Supplied("with_disk", metrics)
    /\ UNCHANGED <<pc, ret, file, dagVars, registryVars, jsonVars>>

WithQueries ==
    /\ CallsLeft
    /\ \E metrics \in QueriesInputs :
          /\ with_queries(metrics, SqlOf("system.query_log"))
          /\ called' = Supplied("with_queries", metrics)
    /\ UNCHANGED <<pc, ret, file, dagVars, registryVars, jsonVars>>

WithMvDag ==
    /\ CallsLeft
    /\ \E dag \in DagInputs : with_mv_dag(dag, SqlOf("system.tables"))
    /\ called' = Supplied("with_mv_dag", <<>>)
    /\ UNCHANGED <<pc, ret, file, dagVars, registryVars, jsonVars>>

RunRules ==
    /\ CallsLeft
    /\ \E registry \in Registries : run_rules(registry)
    /\ called' = Supplied("run_rules", <<>>)
    /\ UNCHANGED <<pc, ret, file, dagVars, registryVars, jsonVars>>

Build ==
    /\ build
    /\ UNCHANGED <<auditVars, dagVars, registryVars, jsonVars>>

Next ==
    \/ WithParts
    \/ WithMerges
    \/ WithMutations
    \/ WithDisk
    \/ WithQueries
    \/ WithMvDag
    \/ RunRules
    \/ Build

Spec == Init /\ [][Next]_vars

-----------------------------------------------------------------------------
(* The rules, each evaluated on its own over contexts whose records sit at *)
(* and next to every threshold of the catalogue                            *)

Tables == {"events", "logs"}

PartsAt(t, v) == PartsMetrics("testdb", t, v)

MergesAt(t, v) == MergeMetrics("testdb", t, v[1], v[2])

MutationsAt(t, v) == MutationMetrics("testdb", t, v[1], v[2])

DiskAt(name, v) == DiskMetrics(name, v, v)

QueryAt(fingerprint, v) == QueryMetrics(fingerprint, v)

\* The record of a family for the table, disk or fingerprint `name`
MetricsAt(family, name, v) ==
    CASE family = "parts" -> PartsAt(name, v)
      [] family = "merges" -> MergesAt(name, v)
      [] family = "mutations" -> MutationsAt(name, v)
      [] family = "disk" -> DiskAt(name, v)
      [] family = "queries" -> QueryAt(name, v)

\* The lists of one record of a family for events, of one for logs, of both,
\* or of none
TableLists(family, values) ==
    {<<>>}
        \cup {<<MetricsAt(family, t, v)>> : t \in Tables, v \in values}
        \cup {<<MetricsAt(family, "events", v), MetricsAt(family, "logs", w)>> :
                  v \in values, w \in values}

\* The lists of one record for the name a, of one for a and one for b, or of
\* none
NamedLists(family, a, b, values) ==
    {<<>>}
        \cup {<<MetricsAt(family, a, v)>> : v \in values}
        \cup {<<MetricsAt(family, a, v), MetricsAt(family, b, w)>> :
                  v \in values, w \in values}

PartsValues == {PARTS_WARNING, PARTS_WARNING + 1, PARTS_CRITICAL, PARTS_CRITICAL + 1}

MergesValues ==
    {MERGE_QUEUE_WARNING, MERGE_QUEUE_WARNING + 1}
        \X {MERGE_ELAPSED_WARNING_SEC, MERGE_ELAPSED_WARNING_SEC + 1}

MutationsValues ==
    {0, 1} \X {None, Some(MUTATION_STUCK_SEC), Some(MUTATION_STUCK_SEC + 1)}

DiskValues == {DISK_CRITICAL_PCT - 1, DISK_CRITICAL_PCT, DISK_WARNING_PCT - 1, DISK_WARNING_PCT}

QueryValues == {READ_AMP_WARNING, READ_AMP_WARNING + 1, READ_AMP_CRITICAL, READ_AMP_CRITICAL + 1}

\* The contexts build_context returns for a builder that was given one list
\* of one family
RuleContexts ==
    {[NewContext EXCEPT !.parts = InsertAll(EmptyMap, l)] :
        l \in TableLists("parts", PartsValues)}
    \cup {[NewContext EXCEPT !.merges = InsertAll(EmptyMap, l)] :
        l \in TableLists("merges", MergesValues)}
    \cup {[NewContext EXCEPT !.mutations = InsertAll(EmptyMap, l)] :
        l \in TableLists("mutations", MutationsValues)}
    \cup {set_disk(NewContext, l) : l \in NamedLists("disk", "default", "cold", DiskValues)}
    \cup {set_queries(NewContext, l) :
        l \in NamedLists("queries", "SELECT ? FROM events", "SELECT ? FROM logs", QueryValues)}

InitRules ==
    /\ evidence = <<>>
    /\ parts = EmptyMap
    /\ merges = EmptyMap
    /\ mutations = EmptyMap
    /\ disk = <<>>
    /\ queries = <<>>
    /\ mv_dag = None
    /\ findings = <<>>
    /\ actions = <<>>
    /\ phase = "open"
    /\ report = None
    /\ ctx \in RuleContexts
    /\ results = <<>>
    /\ lastRule = "none"
    /\ lastId = ""
    /\ nWith = 0
    /\ nRun = 0
    /\ pc = "idle"
    /\ called = <<>>
    /\ ret = None
    /\ file = [kind |-> "absent", report |-> None]
    /\ DagIdle
    /\ JsonIdle
    /\ rules = NewRegistry

\* rule.evaluate(&ctx) for one rule of the default registry
EvaluateRule ==
    /\ phase = "open"
    /\ \E i \in 1..Len(with_default_rules), ords \in MapOrders(ctx) :
          LET rule == with_default_rules[i]
          IN  /\ lastRule' = rule.id
              /\ IF EvaluatePanics(rule, ctx)
                 THEN phase' = "panicked" /\ results' = <<>>
                 ELSE phase' = phase /\ results' = Evaluate(rule, ctx, ords)
    /\ UNCHANGED <<evidence, parts, merges, mutations, disk, queries, mv_dag, findings,
                   actions, report, ctx, lastId, nWith, nRun, auditVars, dagVars, registryVars, jsonVars>>

NextRules == EvaluateRule

SpecRules == InitRules /\ [][NextRules]_vars

-----------------------------------------------------------------------------
(* The rules, each evaluated on its own over the contexts at the edge of   *)
(* its input: nothing collected, a mutation record without an age, query   *)
(* fingerprints around the 80 bytes truncate_fingerprint keeps             *)

RECURSIVE Repeat(_, _)
Repeat(ch, n) == IF n <= 0 THEN "" ELSE ch \o Repeat(ch, n - 1)

\* A fingerprint of len characters, all "a" but a two-byte "é" at position
\* pos; all "a" when pos = 0
Fingerprint(len, pos) ==
    IF pos = 0 THEN Repeat("a", len)
    ELSE Repeat("a", pos - 1) \o "é" \o Repeat("a", len - pos)

Fingerprints ==
    {Fingerprint(len, pos) :
        len \in (FP_KEEP_LEN - 2)..MaxFingerprint,
        pos \in {0, 1, FP_KEEP_LEN - 1, FP_KEEP_LEN, FP_KEEP_LEN + 1, FP_MAX_LEN,
                 FP_MAX_LEN + 1}}

EdgeContexts ==
    {NewContext}
        \cup {[NewContext EXCEPT !.mutations = InsertAll(EmptyMap, l)] :
                l \in TableLists("mutations", {0, 1} \X {None})}
        \cup {set_queries(NewContext, <<QueryMetrics(fp, amp)>>) :
                fp \in Fingerprints,
                amp \in {READ_AMP_WARNING, READ_AMP_WARNING + 1, READ_AMP_CRITICAL + 1}}

InitEdge ==
    /\ evidence = <<>>
    /\ parts = EmptyMap
    /\ merges = EmptyMap
    /\ mutations = EmptyMap
    /\ disk = <<>>
    /\ queries = <<>>
    /\ mv_dag = None
    /\ findings = <<>>
    /\ actions = <<>>
    /\ phase = "open"
    /\ report = None
    /\ ctx \in EdgeContexts
    /\ results = <<>>
    /\ lastRule = "none"
    /\ lastId = ""
    /\ nWith = 0
    /\ nRun = 0
    /\ pc = "idle"
    /\ called = <<>>
    /\ ret = None
    /\ file = [kind |-> "absent", report |-> None]
    /\ DagIdle
    /\ JsonIdle
    /\ rules = NewRegistry

SpecEdge == InitEdge /\ [][NextRules]_vars

-----------------------------------------------------------------------------
(* The rule registry: a caller registers rules on a registry made by new() *)
(* or by with_default_rules(), runs it on a builder that was given the     *)
(* five families of metrics, and builds the report                         *)

\* The rules a caller registers: the five of the rule set and the MockRule
\* of engine.rs, which triggers or not
RulePool ==
    {PartsExplosionRule, MergeBacklogRule, DiskHeadroomRule, QueryAmplificationRule,
     StuckMutationRule,
     CustomRule("mock_rule", <<>>),
     CustomRule("mock_rule", <<[finding |-> MockFinding("f-mock", "warning"),
                                actions |-> <<>>]>>)}

\* A context in which every default rule emits a finding, parts_explosion
\* and disk_headroom two
BusyContext ==
    [parts |-> InsertAll(EmptyMap, <<PartsMetrics("testdb", "events", 500),
                                     PartsMetrics("testdb", "logs", 1500)>>),
     merges |-> InsertAll(EmptyMap, <<MergeMetrics("testdb", "events", 11, 0)>>),
     mutations |-> InsertAll(EmptyMap,
                      <<MutationMetrics("testdb", "events", 1, Some(7200))>>),
     disk |-> <<DiskMetrics("default", 5, 5), DiskMetrics("cold", 15, 15)>>,
     queries |-> <<QueryMetrics("SELECT ? FROM events", 5000)>>]

\* A context in which only disk_headroom and stuck_mutation emit a finding
QuietContext ==
    [NewContext EXCEPT
        !.mutations = InsertAll(EmptyMap,
                         <<MutationMetrics("testdb", "logs", 2, Some(3601))>>),
        !.disk = <<DiskMetrics("default", 15, 15)>>]

RegistryContexts == {NewContext, BusyContext, QuietContext}

\* The ledger after with_parts, with_merges, with_mutations, with_disk and
\* with_queries, called once each in this order
LoadedEvidence ==
    Record(Record(Record(Record(Record(<<>>,
        "system.parts", SqlOf("system.parts")),
        "system.merges", SqlOf("system.merges")),
        "system.mutations", SqlOf("system.mutations")),
        "system.disks", SqlOf("system.disks")),
        "system.query_log", SqlOf("system.query_log"))

\* run_rules is called at most MaxRuns times
MaxRuns == 2

InitRegistry ==
    /\ evidence = LoadedEvidence
    /\ \E c \in RegistryContexts :
          /\ parts = c.parts
          /\ merges = c.merges
          /\ mutations = c.mutations
          /\ disk = c.disk
          /\ queries = c.queries
    /\ mv_dag = None
    /\ findings = <<>>
    /\ actions = <<>>
    /\ phase = "open"
    /\ report = None
    /\ ctx = NewContext
    /\ results = <<>>
    /\ lastRule = "none"
    /\ lastId = LoadedEvidence[Len(LoadedEvidence)].id
    /\ nWith = Len(LoadedEvidence)
    /\ nRun = 0
    /\ pc = "idle"
    /\ called = <<>>
    /\ ret = None
    /\ file = [kind |-> "absent", report |-> None]
    /\ DagIdle
    /\ JsonIdle
    /\ rules \in {NewRegistry, with_default_rules}

\* registry.register(rule), before the caller runs the rules
Register ==
    /\ phase = "open"
    /\ nRun = 0
    /\ Len(rules) < MaxRules
    /\ \E rule \in RulePool : rules' = register(rules, rule)
    /\ UNCHANGED <<builderVars, ruleVars, auditVars, dagVars, jsonVars>>

\* builder.run_rules(&registry)
RegistryRunRules ==
    /\ nRun < MaxRuns
    /\ run_rules(rules)
    /\ UNCHANGED <<auditVars, dagVars, registryVars, jsonVars>>

NextRegistry ==
    \/ Register
    \/ RegistryRunRules
    \/ Build

SpecRegistry == InitRegistry /\ [][NextRegistry]_vars

-----------------------------------------------------------------------------
(* The evidence ledger: up to MaxLedger entries recorded through with_disk *)
(* and with_queries, then build                                            *)

LedgerWithDisk ==
    /\ nWith < MaxLedger
    /\ with_disk(<<>>, SqlOf("system.disks"))
    /\ UNCHANGED <<auditVars, dagVars, registryVars, jsonVars>>

LedgerWithQueries ==
    /\ nWith < MaxLedger
    /\ with_queries(<<>>, SqlOf("system.query_log"))
    /\ UNCHANGED <<auditVars, dagVars, registryVars, jsonVars>>

NextLedger ==
    \/ LedgerWithDisk
    \/ LedgerWithQueries
    \/ Build

SpecLedger == Init /\ [][NextLedger]_vars

-----------------------------------------------------------------------------
(* The driver: run_audit of main.rs, one action per awaited call.  `called` *)
(* logs every call made on the client, the builder and the writer with the  *)
(* outcome the callee returned.                                             *)

Ok == [ok |-> TRUE, err |-> ""]

Err(what) == [ok |-> FALSE, err |-> what]

Logged(call, outcome) ==
    Append(called, [call |-> call, ok |-> outcome.ok, err |-> outcome.err])

\* The values the server may answer SELECT 1 AS result with
PingValues == {0, 1}

\* What fetch_one of the ping returns: an error, or the row with the value
PingAnswers ==
    {[failed |-> TRUE, result |-> 0]}
        \cup {[failed |-> FALSE, result |-> v] : v \in PingValues}

\* Mutant of ping: the value of the row is not checked
ping_unchecked(answer) ==
    IF answer.failed THEN Err("Failed to connect to ClickHouse") ELSE Ok

\* ChClient::ping (ch/client.rs:28-48): the query fails, or the value is
\* checked against 1
ping(answer) ==
    IF answer.failed THEN Err("Failed to connect to ClickHouse")
    ELSE IF answer.result = 1 THEN Ok
    ELSE Err("Unexpected ping result: " \o ToString(answer.result))

\* Mutant of Propagate: the error is dropped and the driver goes on
PropagateSwallow(outcome, next) ==
    /\ ret' = ret
    /\ pc' = next

\* The `?` of run_audit on an Err: the function returns the error
Propagate(outcome, next) ==
    /\ ret' = Some(outcome)
    /\ pc' = "done"

\* main.rs:28-29
AuditPing ==
    /\ pc = "ping"
    /\ \E answer \in PingAnswers :
          LET outcome == ping(answer)
          IN  /\ called' = Append(called, [call |-> "ping", ok |-> outcome.ok,
                                           err |-> outcome.err, answer |-> answer])
              /\ IF outcome.ok
                 THEN pc' = "parts" /\ ret' = ret
                 ELSE Propagate(outcome, "parts")
    /\ UNCHANGED <<builderVars, ruleVars, file, dagVars, registryVars, jsonVars>>

\* A collector call of run_audit that returns Err: the ? returns it
CollectErr(source, next) ==
    /\ called' = Logged(source, Err("Failed to execute query: " \o source))
    /\ Propagate(Err("Failed to execute query: " \o source), next)
    /\ UNCHANGED <<builderVars, ruleVars, file, dagVars, registryVars, jsonVars>>

\* A collector call of run_audit that returns Ok(metrics): the with_* call
\* of the caller follows
CollectOk(source, next) ==
    /\ called' = Logged(source, Ok)
    /\ pc' = next
    /\ UNCHANGED <<ret, file, dagVars, registryVars, jsonVars>>

\* main.rs:42-44
AuditParts ==
    /\ pc = "parts"
    /\ \/ CollectErr("system.parts", "merges")
       \/ /\ CollectOk("system.parts", "merges")
          /\ \E metrics \in PartsInputs : with_parts(metrics, SqlOf("system.parts"))

\* main.rs:47-49
AuditMerges ==
    /\ pc = "merges"
    /\ \/ CollectErr("system.merges", "mutations")
       \/ /\ CollectOk("system.merges", "mutations")
          /\ \E metrics \in MergesInputs : with_merges(metrics, SqlOf("system.merges"))

\* main.rs:52-54
AuditMutations ==
    /\ pc = "mutations"
    /\ \/ CollectErr("system.mutations", "disk")
       \/ /\ CollectOk("system.mutations", "disk")
          /\ \E metrics \in MutationsInputs :
                with_mutations(metrics, SqlOf("system.mutations"))

\* main.rs:57-59
AuditDisk ==
    /\ pc = "disk"
    /\ \/ CollectErr("system.disks", "query_log")
       \/ /\ CollectOk("system.disks", "query_log")
          /\ \E metrics \in DiskInputs : with_disk(metrics, SqlOf("system.disks"))

\* main.rs:62-64
AuditQueries ==
    /\ pc = "query_log"
    /\ \/ CollectErr("system.query_log", "mv_dag")
       \/ /\ CollectOk("system.query_log", "mv_dag")
          /\ \E metrics \in QueriesInputs :
                with_queries(metrics, SqlOf("system.query_log"))

\* main.rs:67-69; MvDagCollector::collect issues the tables query and then
\* the dependencies query (mv_dag.rs:67-75)
AuditMvDag ==
    /\ pc = "mv_dag"
    /\ \/ /\ called' = Logged("system.tables", Err("Failed to execute query: system.tables"))
          /\ Propagate(Err("Failed to execute query: system.tables"), "rules")
          /\ UNCHANGED <<builderVars, ruleVars, file, dagVars, registryVars, jsonVars>>
       \/ /\ called' = Append(Logged("system.tables", Ok),
                    [call |-> "system.tables dependencies", ok |-> FALSE,
                     err |-> "Failed to execute query: system.tables dependencies"])
          /\ Propagate(Err("Failed to execute query: system.tables dependencies"), "rules")
          /\ UNCHANGED <<builderVars, ruleVars, file, dagVars, registryVars, jsonVars>>
       \/ /\ called' = Append(Logged("system.tables", Ok),
                    [call |-> "system.tables dependencies", ok |-> TRUE, err |-> ""])
          /\ \E dag \in DagInputs : with_mv_dag(dag, SqlOf("system.tables"))
          /\ pc' = "rules"
          /\ UNCHANGED <<ret, file, dagVars, registryVars, jsonVars>>

\* main.rs:73-74; a panic of a rule ends the process
AuditRules ==
    /\ pc = "rules"
    /\ run_rules(with_default_rules)
    /\ called' = Logged("run_rules", Ok)
    /\ IF phase' = "panicked"
       THEN pc' = "done" /\ ret' = Some(Err("panic"))
       ELSE pc' = "write" /\ ret' = ret
    /\ UNCHANGED <<file, dagVars, registryVars, jsonVars>>

\* main.rs:77-83: build, write_report (output/json.rs:6-14) and
\* print_summary.  std::fs::write creates or truncates the file and then
\* writes the text; when it fails the file is as before (it could not be
\* opened) or holds a part of the text.
AuditWrite ==
    /\ pc = "write"
    /\ build
    /\ \/ /\ called' = Logged("write_report", Ok)
          /\ file' = [kind |-> "complete", report |-> report']
          /\ ret' = Some(Ok)
          /\ pc' = "done"
       \/ /\ called' = Logged("write_report", Err("Failed to write report"))
          /\ \/ file' = file
             \/ file' = [kind |-> "partial", report |-> None]
          /\ Propagate(Err("Failed to write report"), "done")
    /\ UNCHANGED <<dagVars, registryVars, jsonVars>>

InitAudit ==
    /\ evidence = <<>>
    /\ parts = EmptyMap
    /\ merges = EmptyMap
    /\ mutations = EmptyMap
    /\ disk = <<>>
    /\ queries = <<>>
    /\ mv_dag = None
    /\ findings = <<>>
    /\ actions = <<>>
    /\ phase = "open"
    /\ report = None
    /\ ctx = NewContext
    /\ results = <<>>
    /\ lastRule = "none"
    /\ lastId = ""
    /\ nWith = 0
    /\ nRun = 0
    /\ pc = "ping"
    /\ called = <<>>
    /\ ret = None
    /\ file = [kind |-> "absent", report |-> None]
    /\ DagIdle
    /\ JsonIdle
    /\ rules = NewRegistry

NextAudit ==
    \/ AuditPing
    \/ AuditParts
    \/ AuditMerges
    \/ AuditMutations
    \/ AuditDisk
    \/ AuditQueries
    \/ AuditMvDag
    \/ AuditRules
    \/ AuditWrite

SpecAudit == InitAudit /\ [][NextAudit]_vars

-----------------------------------------------------------------------------
(* MvDagCollector::build_dag and calculate_depths (collectors/mv_dag.rs),  *)
(* one action per pass of the while loop and one for the return            *)

TableRow(db, name, engine) == [database |-> db, name |-> name, engine |-> engine]

DependencyRow(db, name, dep_database, dep_table) ==
    [database |-> db, name |-> name, dep_database |-> dep_database,
     dep_table |-> dep_table]

\* str::starts_with
StartsWith(str, prefix) ==
    Len(str) >= Len(prefix) /\ SubSeq(str, 1, Len(prefix)) = prefix

\* str::contains
Contains(str, pattern) ==
    \E i \in 1..(Len(str) - Len(pattern) + 1) :
        SubSeq(str, i, i + Len(pattern) - 1) = pattern

\* mv_dag.rs:88: the key of the dependent table of a dependency row
RowKey(dep) == TableKey(dep.database, dep.name)

\* mv_dag.rs:89: the key of the table it depends on
RowDepKey(dep) == TableKey(dep.dep_database, dep.dep_table)

\* mv_dag.rs:84-93: table -> [tables it depends on], in the order of the rows
DependsOn(deps) ==
    [key \in {RowKey(deps[i]) : i \in 1..Len(deps)} |->
        LET rows == SelectSeq(deps, LAMBDA d : RowKey(d) = key)
        IN  [i \in 1..Len(rows) |-> RowDepKey(rows[i])]]

\* mv_dag.rs:149-152
TableKeys(rows) == {TableKey(rows[i].database, rows[i].name) : i \in 1..Len(rows)}

\* mv_dag.rs:154-158: the tables without an entry in depends_on get depth 0
RootDepths(rows, depends_on) ==
    [key \in {k \in TableKeys(rows) : k \notin DOMAIN depends_on} |-> 0]

SetMax(S) == CHOOSE m \in S : \A n \in S : n <= m

\* mv_dag.rs:169-173: the greatest depth of the dependencies that have one
MaxDepDepth(deps, ds) ==
    LET known == {ds[d] : d \in {x \in Range(deps) : x \in DOMAIN ds}}
    IN  IF known = {} THEN None ELSE Some(SetMax(known))

\* mv_dag.rs:165-182: the body of the for loop for one entry of depends_on;
\* st is [depths, changed]
Relax(db, table, deps, st) ==
    IF ~StartsWith(table, db \o ".") THEN st
    ELSE LET max_dep_depth == MaxDepDepth(deps, st.depths)
         IN  IF max_dep_depth = None THEN st
             ELSE LET new_depth == max_dep_depth[1] + 1
                  IN  IF table \notin DOMAIN st.depths \/ st.depths[table] < new_depth
                      THEN [depths |-> Insert(st.depths, table, new_depth),
                            changed |-> TRUE]
                      ELSE st

\* mv_dag.rs:164-183: the for loop over depends_on, its entries taken in the
\* order ord
RECURSIVE ScanPass(_, _, _, _)
ScanPass(db, depends_on, ord, st) ==
    IF ord = <<>> THEN st
    ELSE ScanPass(db, depends_on, Tail(ord),
                  Relax(db, Head(ord), depends_on[Head(ord)], st))

\* mv_dag.rs:116: *depths.get(&key).unwrap_or(&0)
DepthOf(ds, key) == IF key \in DOMAIN ds THEN ds[key] ELSE 0

\* mv_dag.rs:100-119
DagNode(t, ds) ==
    [name |-> t.name, database |-> t.database,
     table_type |-> IF Contains(t.engine, "MaterializedView")
                    THEN "materialized_view" ELSE "table",
     engine |-> t.engine,
     depth |-> DepthOf(ds, TableKey(t.database, t.name))]

\* mv_dag.rs:122-128
DagEdge(d) == [from |-> RowDepKey(d), to |-> RowKey(d)]

\* mv_dag.rs:130: depths.values().copied().max().unwrap_or(0)
MaxDepth(ds) == IF DOMAIN ds = {} THEN 0 ELSE SetMax({ds[k] : k \in DOMAIN ds})

\* mv_dag.rs:98-138: the section build_dag returns
DagSection(rows, deps, ds) ==
    LET nodes == [i \in 1..Len(rows) |-> DagNode(rows[i], ds)]
        mv_count == Cardinality({i \in 1..Len(nodes) :
                                    nodes[i].table_type = "materialized_view"})
    IN  [nodes |-> nodes,
         edges |-> [i \in 1..Len(deps) |-> DagEdge(deps[i])],
         max_depth |-> MaxDepth(ds),
         total_tables |-> Len(rows) - mv_count,
         total_mvs |-> mv_count]

\* The database build_dag is called for
DagDatabase == "testdb"

DagNames == {"events", "events_daily", "events_weekly"}

EngineOf(name) == IF name = "events" THEN "MergeTree" ELSE "MaterializedView"

\* The table rows: any tables of the database, in any order
TableRowLists ==
    UNION {{[i \in 1..Len(ord) |-> TableRow(DagDatabase, ord[i], EngineOf(ord[i]))] :
                ord \in Orders(S)} : S \in SUBSET DagNames}

\* The dependency rows: a table of the database depends on another one, on
\* itself (events_daily), or on a table of another database; and a table of
\* another database depends on events
DependencyRows ==
    {DependencyRow(DagDatabase, p[1], DagDatabase, p[2]) :
        p \in {q \in DagNames \X DagNames : q[1] # q[2]}}
        \cup {DependencyRow(DagDatabase, "events_daily", DagDatabase, "events_daily")}
        \cup {DependencyRow(DagDatabase, n, "other", "src") : n \in DagNames}
        \cup {DependencyRow("other", "sink", DagDatabase, "events")}

\* The lists of at most MaxDeps distinct dependency rows, in any order
DependencyLists ==
    UNION {Orders(S) : S \in {T \in SUBSET DependencyRows : Cardinality(T) <= MaxDeps}}

\* build_dag is entered: depends_on is built and calculate_depths has set
\* the depth of the roots and changed = true (mv_dag.rs:84-161)
InitDag ==
    /\ evidence = <<>>
    /\ parts = EmptyMap
    /\ merges = EmptyMap
    /\ mutations = EmptyMap
    /\ disk = <<>>
    /\ queries = <<>>
    /\ mv_dag = None
    /\ findings = <<>>
    /\ actions = <<>>
    /\ phase = "open"
    /\ report = None
    /\ ctx = NewContext
    /\ results = <<>>
    /\ lastRule = "none"
    /\ lastId = ""
    /\ nWith = 0
    /\ nRun = 0
    /\ pc = "idle"
    /\ called = <<>>
    /\ ret = None
    /\ file = [kind |-> "absent", report |-> None]
    /\ tables \in TableRowLists
    /\ dependencies \in DependencyLists
    /\ depths = RootDepths(tables, DependsOn(dependencies))
    /\ changed = TRUE
    /\ passes = 0
    /\ section = None
    /\ rules = NewRegistry
    /\ JsonIdle

\* mv_dag.rs:162-184: one pass of the while loop
DepthPass ==
    /\ section = None
    /\ changed
    /\ passes < MaxPasses
    /\ \E ord \in Orders(DOMAIN DependsOn(dependencies)) :
          LET st == ScanPass(DagDatabase, DependsOn(dependencies), ord,
                             [depths |-> depths, changed |-> FALSE])
          IN  /\ depths' = st.depths
              /\ changed' = st.changed
    /\ passes' = passes + 1
    /\ UNCHANGED <<builderVars, ruleVars, auditVars, registryVars, jsonVars, tables, dependencies, section>>

\* mv_dag.rs:186 and 98-138: the loop is left, build_dag returns the section
DagReturn ==
    /\ section = None
    /\ ~changed
    /\ section' = Some(DagSection(tables, dependencies, depths))
    /\ UNCHANGED <<builderVars, ruleVars, auditVars, registryVars, jsonVars, tables, dependencies, depths,
                   changed, passes>>

NextDag ==
    \/ DepthPass
    \/ DagReturn

SpecDag == InitDag /\ [][NextDag]_vars

-----------------------------------------------------------------------------
(* The JSON form of a report: the serde attributes of report/types.rs and   *)
(* write_report of output/json.rs.  A JSON text is modelled by the value it *)
(* denotes: a string, a number, null, an array or an object (a function     *)
(* from its keys).  An f64 is [class, value] with class finite, nan or      *)
(* infinite; an enum value is the name of its variant.                      *)

UpperLetters == "ABCDEFGHIJKLMNOPQRSTUVWXYZ"

LowerLetters == "abcdefghijklmnopqrstuvwxyz"

\* char::is_uppercase on the letters of an identifier
IsUpper(ch) == \E i \in 1..Len(UpperLetters) : SubSeq(UpperLetters, i, i) = ch

\* char::to_ascii_lowercase
ToLower(ch) ==
    IF IsUpper(ch)
    THEN LET i == CHOOSE i \in 1..Len(UpperLetters) : SubSeq(UpperLetters, i, i) = ch
         IN  SubSeq(LowerLetters, i, i)
    ELSE ch

\* rename_all = "lowercase": the name of the variant in lower case
RECURSIVE RenameLowercase(_)
RenameLowercase(variant) ==
    IF Len(variant) = 0 THEN ""
    ELSE ToLower(SubSeq(variant, 1, 1)) \o RenameLowercase(SubSeq(variant, 2, Len(variant)))

\* rename_all = "snake_case": an underscore before every upper-case letter
\* but the first, and the letters in lower case; tail is the part of the name
\* still to do, first tells whether it starts the name
RECURSIVE RenameSnakeFrom(_, _)
RenameSnakeFrom(tail, first) ==
    IF Len(tail) = 0 THEN ""
    ELSE (IF ~first /\ IsUpper(SubSeq(tail, 1, 1)) THEN "_" ELSE "")
            \o ToLower(SubSeq(tail, 1, 1))
            \o RenameSnakeFrom(SubSeq(tail, 2, Len(tail)), FALSE)

RenameSnakeCase(variant) == RenameSnakeFrom(variant, TRUE)

\* The enums of the report, their variants and their rename_all attribute
EnumVariants(enum) ==
    CASE enum = "ReportStatus" -> <<"Healthy", "Warning", "Critical">>
      [] enum = "TableType" -> <<"Table", "MaterializedView">>
      [] enum = "Severity" -> <<"Warning", "Critical">>
      [] enum = "ActionType" -> <<"Recommendation", "DdlProposal">>
      [] enum = "Priority" -> <<"High", "Medium", "Low">>

EnumRenameAll(enum) ==
    CASE enum = "ReportStatus" -> "lowercase"
      [] enum = "TableType" -> "snake_case"
      [] enum = "Severity" -> "lowercase"
      [] enum = "ActionType" -> "lowercase"
      [] enum = "Priority" -> "lowercase"

\* The literal a variant is serialized as and recognised by
VariantLiteral(enum, variant) ==
    IF EnumRenameAll(enum) = "snake_case"
    THEN RenameSnakeCase(variant)
    ELSE RenameLowercase(variant)

\* A field of a struct: its name, its type as a path (Vec and Option before
\* the type of their items) and whether it carries
\* skip_serializing_if = "Option::is_none"
Field(name, ty) == [name |-> name, ty |-> ty, skip |-> FALSE]

SkipIfNone(name, ty) == [name |-> name, ty |-> ty, skip |-> TRUE]

\* The structs of report/types.rs
StructFields(struct) ==
    CASE struct = "Report" ->
            <<Field("report_version", <<"String">>), Field("report_id", <<"String">>),
              Field("generated_at", <<"String">>), Field("targets", <<"struct", "Targets">>),
              Field("summary", <<"struct", "Summary">>),
              Field("sections", <<"struct", "Sections">>),
              Field("findings", <<"Vec", "struct", "Finding">>),
              Field("actions", <<"Vec", "struct", "Action">>),
              Field("evidence", <<"Vec", "struct", "Evidence">>)>>
      [] struct = "Targets" ->
            <<Field("endpoint", <<"String">>), Field("database", <<"String">>),
              Field("tables", <<"Vec", "String">>)>>
      [] struct = "Summary" ->
            <<Field("status", <<"enum", "ReportStatus">>), Field("findings_count", <<"u64">>),
              Field("critical_count", <<"u64">>), Field("warning_count", <<"u64">>)>>
      [] struct = "Sections" ->
            <<SkipIfNone("parts", <<"Option", "struct", "PartsSection">>),
              SkipIfNone("merges", <<"Option", "struct", "MergesSection">>),
              SkipIfNone("mutations", <<"Option", "struct", "MutationsSection">>),
              SkipIfNone("disk", <<"Option", "struct", "DiskSection">>),
              SkipIfNone("query_log", <<"Option", "struct", "QueryLogSection">>),
              SkipIfNone("mv_dag", <<"Option", "struct", "MvDagSection">>)>>
      [] struct = "PartsSection" -> <<Field("tables", <<"Vec", "struct", "PartsMetrics">>)>>
      [] struct = "PartsMetrics" ->
            <<Field("database", <<"String">>), Field("table", <<"String">>),
              Field("parts_count", <<"u64">>), Field("active_parts", <<"u64">>),
              Field("total_rows", <<"u64">>), Field("bytes_on_disk", <<"u64">>),
              SkipIfNone("oldest_part", <<"Option", "String">>),
              SkipIfNone("newest_part", <<"Option", "String">>)>>
      [] struct = "MergesSection" -> <<Field("tables", <<"Vec", "struct", "MergeMetrics">>)>>
      [] struct = "MergeMetrics" ->
            <<Field("database", <<"String">>), Field("table", <<"String">>),
              Field("merges_in_queue", <<"u64">>), Field("merge_rows_read", <<"u64">>),
              Field("merge_bytes_read", <<"u64">>),
              Field("max_merge_elapsed_sec", <<"f64">>)>>
      [] struct = "MutationsSection" ->
            <<Field("tables", <<"Vec", "struct", "MutationMetrics">>)>>
      [] struct = "MutationMetrics" ->
            <<Field("database", <<"String">>), Field("table", <<"String">>),
              Field("total_mutations", <<"u64">>), Field("active_mutations", <<"u64">>),
              SkipIfNone("latest_mutation_time", <<"Option", "String">>),
              SkipIfNone("oldest_active_mutation_age_sec", <<"Option", "u64">>)>>
      [] struct = "DiskSection" -> <<Field("disks", <<"Vec", "struct", "DiskMetrics">>)>>
      [] struct = "DiskMetrics" ->
            <<Field("disk_name", <<"String">>), Field("path", <<"String">>),
              Field("total_space", <<"u64">>), Field("free_space", <<"u64">>),
              Field("free_percent", <<"f64">>)>>
      [] struct = "QueryLogSection" ->
            <<Field("queries", <<"Vec", "struct", "QueryMetrics">>)>>
      [] struct = "QueryMetrics" ->
            <<Field("query_fingerprint", <<"String">>), Field("execution_count", <<"u64">>),
              Field("avg_duration_ms", <<"f64">>), Field("total_read_rows", <<"u64">>),
              Field("total_read_bytes", <<"u64">>), Field("total_result_rows", <<"u64">>),
              Field("read_amplification", <<"f64">>), Field("avg_memory_bytes", <<"u64">>),
              SkipIfNone("sample_query", <<"Option", "String">>)>>
      [] struct = "MvDagSection" ->
            <<Field("nodes", <<"Vec", "struct", "MvDagNode">>),
              Field("edges", <<"Vec", "struct", "MvDagEdge">>),
              Field("max_depth", <<"u64">>), Field("total_tables", <<"u64">>),
              Field("total_mvs", <<"u64">>)>>
      [] struct = "MvDagNode" ->
            <<Field("name", <<"String">>), Field("database", <<"String">>),
              Field("table_type", <<"enum", "TableType">>), Field("engine", <<"String">>),
              Field("depth", <<"u64">>)>>
      [] struct = "MvDagEdge" -> <<Field("from", <<"String">>), Field("to", <<"String">>)>>
      [] struct = "Finding" ->
            <<Field("id", <<"String">>), Field("rule_id", <<"String">>),
              Field("severity", <<"enum", "Severity">>), Field("target", <<"String">>),
              Field("message", <<"String">>), Field("evidence_refs", <<"Vec", "String">>),
              Field("confidence", <<"f64">>)>>
      [] struct = "Action" ->
            <<Field("id", <<"String">>), Field("finding_ref", <<"String">>),
              Field("action_type", <<"enum", "ActionType">>),
              Field("priority", <<"enum", "Priority">>),
              Field("description", <<"String">>),
              SkipIfNone("sql", <<"Option", "String">>)>>
      [] struct = "Evidence" ->
            <<Field("id", <<"String">>), Field("source", <<"String">>),
              Field("sql", <<"String">>), Field("collected_at", <<"String">>)>>

\* JSON values
JString(str) == [tag |-> "string", str |-> str]

JNumber(num) == [tag |-> "number", num |-> num]

JNull == [tag |-> "null"]

JArray(items) == [tag |-> "array", items |-> items]

JObject(members) == [tag |-> "object", members |-> members]

\* f64 values
Finite(value) == [class |-> "finite", value |-> value]

NaN == [class |-> "nan", value |-> 0]

\* Serialize for a value of the type ty (serde_json: a float that is not
\* finite is written as null; a field with skip_serializing_if is left out
\* when it is None)
RECURSIVE to_value(_, _)
to_value(ty, v) ==
    CASE Head(ty) = "String" -> JString(v)
      [] Head(ty) = "u64" -> JNumber(v)
      [] Head(ty) = "f64" -> IF v.class = "finite" THEN JNumber(v.value) ELSE JNull
      [] Head(ty) = "enum" -> JString(VariantLiteral(ty[2], v))
      [] Head(ty) = "Vec" -> JArray([i \in 1..Len(v) |-> to_value(Tail(ty), v[i])])
      [] Head(ty) = "Option" -> IF v = None THEN JNull ELSE to_value(Tail(ty), v[1])
      [] Head(ty) = "struct" ->
            LET fields == StructFields(ty[2])
                kept == {i \in 1..Len(fields) :
                            ~(fields[i].skip /\ v[fields[i].name] = None)}
            IN  JObject([name \in {fields[i].name : i \in kept} |->
                            LET f == fields[CHOOSE i \in kept : fields[i].name = name]
                            IN  to_value(f.ty, v[name])])

\* Deserialize for the type ty: Some(value), or None for an error (a wrong
\* JSON type, an unknown variant, a missing field that is not an Option)
RECURSIVE from_value(_, _)
from_value(ty, j) ==
    CASE Head(ty) = "String" -> IF j.tag = "string" THEN Some(j.str) ELSE None
      [] Head(ty) = "u64" -> IF j.tag = "number" THEN Some(j.num) ELSE None
      [] Head(ty) = "f64" -> IF j.tag = "number" THEN Some(Finite(j.num)) ELSE None
      [] Head(ty) = "enum" ->
            IF j.tag # "string" THEN None
            ELSE LET variants == EnumVariants(ty[2])
                     hits == {i \in 1..Len(variants) :
                                VariantLiteral(ty[2], variants[i]) = j.str}
                 IN  IF hits = {} THEN None
                     ELSE Some(variants[CHOOSE i \in hits : TRUE])
      [] Head(ty) = "Vec" ->
            IF j.tag # "array" THEN None
            ELSE LET items == [i \in 1..Len(j.items) |-> from_value(Tail(ty), j.items[i])]
                 IN  IF \E i \in 1..Len(items) : items[i] = None THEN None
                     ELSE Some([i \in 1..Len(items) |-> items[i][1]])
      [] Head(ty) = "Option" ->
            IF j.tag = "null" THEN Some(None)
            ELSE LET item == from_value(Tail(ty), j)
                 IN  IF item = None THEN None ELSE Some(Some(item[1]))
      [] Head(ty) = "struct" ->
            IF j.tag # "object" THEN None
            ELSE LET fields == StructFields(ty[2])
                     read == [i \in 1..Len(fields) |->
                                IF fields[i].name \in DOMAIN j.members
                                THEN from_value(fields[i].ty, j.members[fields[i].name])
                                ELSE IF Head(fields[i].ty) = "Option" THEN Some(None)
                                ELSE None]
                 IN  IF \E i \in 1..Len(fields) : read[i] = None THEN None
                     ELSE Some([name \in {fields[i].name : i \in 1..Len(fields)} |->
                                 read[CHOOSE i \in 1..Len(fields) : fields[i].name = name][1]])

\* serde_json::to_string_pretty(report) and serde_json::from_str::<Report>
ReportType == <<"struct", "Report">>

to_string_pretty(r) == to_value(ReportType, r)

from_str(text) == from_value(ReportType, text)

\* The reports written: the report of the tests of types.rs and json.rs with
\* none or one finding, action, disk, DAG node and parts record
SampleTargets ==
    [endpoint |-> "http://localhost:8123", database |-> "testdb", tables |-> <<"events">>]

SampleFinding(severity) ==
    [id |-> "f-001", rule_id |-> "parts_explosion", severity |-> severity,
     target |-> "testdb.events", message |-> "Table has 500 active parts",
     evidence_refs |-> <<"ev-001">>, confidence |-> Finite(1)]

SampleAction(action_type, priority, sql) ==
    [id |-> "a-001", finding_ref |-> "f-001", action_type |-> action_type,
     priority |-> priority, description |-> "Run OPTIMIZE TABLE", sql |-> sql]

SampleParts(oldest_part) ==
    [database |-> "testdb", table |-> "events", parts_count |-> 100, active_parts |-> 50,
     total_rows |-> 1000000, bytes_on_disk |-> 500000000, oldest_part |-> oldest_part,
     newest_part |-> oldest_part]

\* free_percent is round(100.0 * free_space / total_space, 2) of the disk
\* query (collectors/disk.rs:28): 0 / 0 is NaN for a disk of no space
SampleDisk(total_space, free_space) ==
    [disk_name |-> "default", path |-> "/var/lib/clickhouse/", total_space |-> total_space,
     free_space |-> free_space,
     free_percent |-> IF total_space = 0 THEN NaN
                      ELSE Finite((100 * free_space) \div total_space)]

SampleNode(table_type) ==
    [name |-> "events", database |-> "testdb", table_type |-> table_type,
     engine |-> IF table_type = "Table" THEN "MergeTree" ELSE "MaterializedView",
     depth |-> 0]

SampleDag(table_type) ==
    [nodes |-> <<SampleNode(table_type)>>, edges |-> <<>>, max_depth |-> 0,
     total_tables |-> IF table_type = "Table" THEN 1 ELSE 0,
     total_mvs |-> IF table_type = "Table" THEN 0 ELSE 1]

SampleSections ==
    [parts : {None} \cup {Some([tables |-> <<SampleParts(o)>>]) :
                            o \in {None, Some("2024-01-01T00:00:00Z")}},
     merges : {None},
     mutations : {None},
     disk : {None} \cup {Some([disks |-> <<SampleDisk(t, 0)>>]) : t \in {0, 100}},
     query_log : {None},
     mv_dag : {None} \cup {Some(SampleDag(t)) : t \in Range(EnumVariants("TableType"))}]

SampleSummary(fs) ==
    [status |-> IF fs = <<>> THEN "Healthy" ELSE fs[1].severity,
     findings_count |-> Len(fs),
     critical_count |-> Cardinality({i \in 1..Len(fs) : fs[i].severity = "Critical"}),
     warning_count |-> Cardinality({i \in 1..Len(fs) : fs[i].severity = "Warning"})]

SampleReport(id, fs, as, sections) ==
    [report_version |-> "1.0.0", report_id |-> id,
     generated_at |-> "2024-01-15T10:30:00Z", targets |-> SampleTargets,
     summary |-> SampleSummary(fs), sections |-> sections, findings |-> fs,
     actions |-> as,
     evidence |-> <<[id |-> "ev-001", source |-> "system.parts",
                     sql |-> "SELECT * FROM system.parts",
                     collected_at |-> "2024-01-15T10:30:00Z"]>>]

SampleReports ==
    {SampleReport("test-id-123", fs, as, sections) :
        fs \in {<<>>} \cup {<<SampleFinding(v)>> : v \in Range(EnumVariants("Severity"))},
        as \in {<<>>} \cup
               {<<SampleAction(t, p, q)>> :
                    t \in Range(EnumVariants("ActionType")),
                    p \in Range(EnumVariants("Priority")),
                    q \in {None, Some("OPTIMIZE TABLE testdb.events FINAL")}},
        sections \in SampleSections}

\* The report an earlier run left in the file at the target path
PreviousReport ==
    SampleReport("test-id", <<>>, <<>>,
                 [parts |-> None, merges |-> None, mutations |-> None, disk |-> None,
                  query_log |-> None, mv_dag |-> None])

\* write_report is called with a built report; the file at the path does not
\* exist or holds the report of an earlier run
InitJson ==
    /\ evidence = <<>>
    /\ parts = EmptyMap
    /\ merges = EmptyMap
    /\ mutations = EmptyMap
    /\ disk = <<>>
    /\ queries = <<>>
    /\ mv_dag = None
    /\ findings = <<>>
    /\ actions = <<>>
    /\ phase = "built"
    /\ report \in {Some(r) : r \in SampleReports}
    /\ ctx = NewContext
    /\ results = <<>>
    /\ lastRule = "none"
    /\ lastId = ""
    /\ nWith = 0
    /\ nRun = 0
    /\ pc = "serialize"
    /\ called = <<>>
    /\ ret = None
    /\ file \in {[kind |-> "absent", report |-> None],
                 [kind |-> "complete", report |-> Some(PreviousReport)]}
    /\ DagIdle
    /\ rules = NewRegistry
    /\ JsonIdle

\* json.rs:8-9
WriteSerialize ==
    /\ pc = "serialize"
    /\ json' = Some(to_string_pretty(report[1]))
    /\ pc' = "create"
    /\ UNCHANGED <<builderVars, ruleVars, called, ret, file, dagVars, registryVars, parsed>>

\* json.rs:11-12, std::fs::write: File::create opens the file and truncates
\* it, or fails and leaves it as it was
WriteCreate ==
    /\ pc = "create"
    /\ \/ /\ file' = [kind |-> "empty", report |-> None]
          /\ pc' = "write_all"
          /\ ret' = ret
       \/ /\ file' = file
          /\ pc' = "done"
          /\ ret' = Some(Err("Failed to write report"))
    /\ UNCHANGED <<builderVars, ruleVars, called, dagVars, registryVars, jsonVars>>

\* json.rs:11-14, std::fs::write: write_all writes the text, or fails after
\* none or a part of it was written
WriteAll ==
    /\ pc = "write_all"
    /\ \/ /\ file' = [kind |-> "complete", report |-> report]
          /\ ret' = Some(Ok)
       \/ /\ \/ file' = file
             \/ file' = [kind |-> "partial", report |-> None]
          /\ ret' = Some(Err("Failed to write report"))
    /\ pc' = "done"
    /\ UNCHANGED <<builderVars, ruleVars, called, dagVars, registryVars, jsonVars>>

\* The file is read back as in test_write_report_valid_json (json.rs:42-53):
\* serde_json::from_str on the text of the report the file holds
ReadBack ==
    /\ pc = "done"
    /\ file.kind = "complete"
    /\ parsed = None
    /\ parsed' = Some(from_str(to_string_pretty(file.report[1])))
    /\ UNCHANGED <<builderVars, ruleVars, auditVars, dagVars, registryVars, json>>

NextJson ==
    \/ WriteSerialize
    \/ WriteCreate
    \/ WriteAll
    \/ ReadBack

SpecJson == InitJson /\ [][NextJson]_vars

-----------------------------------------------------------------------------
(* Properties *)

Built == report # None

DefaultRuleIds == {with_default_rules[i].id : i \in 1..Len(with_default_rules)}

\* every finding of the report was emitted by a rule of the default registry
OnlyDefaultFindings == \A i \in 1..Len(findings) : findings[i].rule_id \in DefaultRuleIds

\* C1: in every built report the status is critical iff critical_count > 0,
\* warning iff critical_count = 0 and warning_count > 0, and healthy iff
\* findings_count = 0.
C1_StatusFromCounts ==
    Built =>
        LET summary == report[1].summary
        IN  /\ (summary.status = "critical") <=> (summary.critical_count > 0)
            /\ (summary.status = "warning")
                    <=> (summary.critical_count = 0 /\ summary.warning_count > 0)
            /\ (summary.status = "healthy") <=> (summary.findings_count = 0)

\* C1 witness: a built report with one critical and one warning finding,
\* whose status is critical.
C1_Witness ==
    /\ Built
    /\ report[1].summary.critical_count = 1
    /\ report[1].summary.warning_count = 1
    /\ report[1].summary.status = "critical"

\* C2: in every built report, whatever registry was passed to run_rules,
\* every action's finding_ref is the id of some finding of the report.
C2_ActionsReferToFindings ==
    Built =>
        \A i \in 1..Len(report[1].actions) :
            \E j \in 1..Len(report[1].findings) :
                report[1].findings[j].id = report[1].actions[i].finding_ref

\* C3: in every report built with the default registry, each action has
\* exactly one parent finding: exactly one finding of the report has the id
\* the action's finding_ref names.
C3_OneParentPerAction ==
    (Built /\ OnlyDefaultFindings) =>
        \A i \in 1..Len(report[1].actions) :
            Cardinality({j \in 1..Len(report[1].findings) :
                report[1].findings[j].id = report[1].actions[i].finding_ref}) = 1

\* The source a default rule reads
SourceOfRule(rule_id) ==
    CASE rule_id = "parts_explosion" -> "system.parts"
      [] rule_id = "merge_backlog" -> "system.merges"
      [] rule_id = "disk_headroom" -> "system.disks"
      [] rule_id = "query_amplification" -> "system.query_log"
      [] rule_id = "stuck_mutation" -> "system.mutations"

\* C4: in every built report, each finding of a default rule has in its
\* evidence_refs the id of an evidence entry of the report for the source
\* its rule read, and every id in evidence_refs is the id of an evidence
\* entry of the report.
C4_FindingsCiteEvidence ==
    Built =>
        \A i \in 1..Len(report[1].findings) :
            LET f == report[1].findings[i]
                ids == {report[1].evidence[k].id : k \in 1..Len(report[1].evidence)}
            IN  f.rule_id \in DefaultRuleIds =>
                    /\ Range(f.evidence_refs) \subseteq ids
                    /\ \E k \in 1..Len(report[1].evidence) :
                          /\ report[1].evidence[k].source = SourceOfRule(f.rule_id)
                          /\ report[1].evidence[k].id \in Range(f.evidence_refs)

\* The results of the last evaluation whose finding has the target t
FindingsFor(t) == {i \in 1..Len(results) : results[i].finding.target = t}

NoFindingFor(t) == FindingsFor(t) = {}

OneFindingFor(t, severity) ==
    /\ Cardinality(FindingsFor(t)) = 1
    /\ \A i \in FindingsFor(t) : results[i].finding.severity = severity

\* C5 as claimed: a record whose input equals any threshold of its rule's
\* catalogue row does not trigger, the rule emits no finding for it.
C5_AtThresholdNoFinding ==
    /\ lastRule = "parts_explosion" =>
          \A k \in DOMAIN ctx.parts :
              ctx.parts[k].active_parts \in {PARTS_WARNING, PARTS_CRITICAL} => NoFindingFor(k)
    /\ lastRule = "merge_backlog" =>
          \A k \in DOMAIN ctx.merges :
              (ctx.merges[k].merges_in_queue = MERGE_QUEUE_WARNING
                  \/ ctx.merges[k].max_merge_elapsed_sec = MERGE_ELAPSED_WARNING_SEC)
              => NoFindingFor(k)
    /\ lastRule = "disk_headroom" =>
          \A i \in 1..Len(ctx.disk) :
              ctx.disk[i].free_percent \in {DISK_WARNING_PCT, DISK_CRITICAL_PCT}
              => NoFindingFor(ctx.disk[i].disk_name)
    /\ lastRule = "query_amplification" =>
          \A i \in 1..Len(ctx.queries) :
              ctx.queries[i].read_amplification \in {READ_AMP_WARNING, READ_AMP_CRITICAL}
              => NoFindingFor(ctx.queries[i].query_fingerprint)
    /\ lastRule = "stuck_mutation" =>
          \A k \in DOMAIN ctx.mutations :
              ctx.mutations[k].oldest_active_mutation_age_sec = Some(MUTATION_STUCK_SEC)
              => NoFindingFor(k)

\* C5 as amended: an input equal to a threshold is not beyond that threshold.
\* At a warning threshold (active_parts 300, free_percent 20,
\* read_amplification 100), at the mutation age 3600, and at merges_in_queue
\* 10 together with max_merge_elapsed_sec 3600 the rule emits no finding for
\* the record; a merge record with one input at its threshold triggers iff
\* the other input is beyond its own; at a critical threshold (active_parts
\* 1000, free_percent 10, read_amplification 1000) the rule emits exactly
\* one finding for the record, a warning.
C5_AtThresholdNotBeyond ==
    /\ lastRule = "parts_explosion" =>
          \A k \in DOMAIN ctx.parts :
              /\ ctx.parts[k].active_parts = PARTS_WARNING => NoFindingFor(k)
              /\ ctx.parts[k].active_parts = PARTS_CRITICAL => OneFindingFor(k, "warning")
    /\ lastRule = "merge_backlog" =>
          \A k \in DOMAIN ctx.merges :
              LET m == ctx.merges[k]
              IN  /\ m.merges_in_queue = MERGE_QUEUE_WARNING =>
                        (NoFindingFor(k)
                            <=> ~(m.max_merge_elapsed_sec > MERGE_ELAPSED_WARNING_SEC))
                  /\ m.max_merge_elapsed_sec = MERGE_ELAPSED_WARNING_SEC =>
                        (NoFindingFor(k) <=> ~(m.merges_in_queue > MERGE_QUEUE_WARNING))
    /\ lastRule = "disk_headroom" =>
          \A i \in 1..Len(ctx.disk) :
              /\ ctx.disk[i].free_percent = DISK_WARNING_PCT
                    => NoFindingFor(ctx.disk[i].disk_name)
              /\ ctx.disk[i].free_percent = DISK_CRITICAL_PCT
                    => OneFindingFor(ctx.disk[i].disk_name, "warning")
    /\ lastRule = "query_amplification" =>
          \A i \in 1..Len(ctx.queries) :
              /\ ctx.queries[i].read_amplification = READ_AMP_WARNING
                    => NoFindingFor(ctx.queries[i].query_fingerprint)
              /\ ctx.queries[i].read_amplification = READ_AMP_CRITICAL
                    => OneFindingFor(ctx.queries[i].query_fingerprint, "warning")
    /\ lastRule = "stuck_mutation" =>
          \A k \in DOMAIN ctx.mutations :
              ctx.mutations[k].oldest_active_mutation_age_sec = Some(MUTATION_STUCK_SEC)
              => NoFindingFor(k)

\* C5 witness: parts_explosion was evaluated over a table with 300 active
\* parts and a table with 1000; its one finding is the warning for the latter.
C5_Witness ==
    /\ lastRule = "parts_explosion"
    /\ \E k, l \in DOMAIN ctx.parts :
          /\ ctx.parts[k].active_parts = PARTS_WARNING
          /\ ctx.parts[l].active_parts = PARTS_CRITICAL
          /\ Len(results) = 1
          /\ results[1].finding.target = l
          /\ results[1].finding.severity = "warning"

\* the band of a value: beyond the critical threshold, beyond the warning
\* threshold only, or neither; below is TRUE for disk_headroom
BandOf(v, warning, critical, below) ==
    IF (IF below THEN v < critical ELSE v > critical) THEN "critical"
    ELSE IF (IF below THEN v < warning ELSE v > warning) THEN "warning"
    ELSE "none"

InBand(t, band) == IF band = "none" THEN NoFindingFor(t) ELSE OneFindingFor(t, band)

\* C6: parts_explosion, disk_headroom and query_amplification emit at most
\* one finding for a record: a critical one iff the value is strictly
\* beyond the critical threshold, a warning iff it is strictly beyond the
\* warning threshold only, none otherwise; and they emit nothing else.
C6_BandedSeverity ==
    /\ lastRule = "parts_explosion" =>
          /\ \A k \in DOMAIN ctx.parts :
                InBand(k, BandOf(ctx.parts[k].active_parts, 300, 1000, FALSE))
          /\ \A i \in 1..Len(results) : results[i].finding.target \in DOMAIN ctx.parts
    /\ lastRule = "disk_headroom" =>
          /\ \A i \in 1..Len(ctx.disk) :
                InBand(ctx.disk[i].disk_name, BandOf(ctx.disk[i].free_percent, 20, 10, TRUE))
          /\ \A i \in 1..Len(results) :
                \E j \in 1..Len(ctx.disk) : results[i].finding.target = ctx.disk[j].disk_name
    /\ lastRule = "query_amplification" =>
          /\ \A i \in 1..Len(ctx.queries) :
                InBand(ctx.queries[i].query_fingerprint,
                       BandOf(ctx.queries[i].read_amplification, 100, 1000, FALSE))
          /\ \A i \in 1..Len(results) :
                \E j \in 1..Len(ctx.queries) :
                    results[i].finding.target = ctx.queries[j].query_fingerprint

\* C6 witness: disk_headroom was evaluated over a disk at 9 percent and a
\* disk at 10 percent: a critical finding, then a warning.
C6_Witness ==
    /\ lastRule = "disk_headroom"
    /\ Len(ctx.disk) = 2
    /\ ctx.disk[1].free_percent = 9
    /\ ctx.disk[2].free_percent = 10
    /\ Len(results) = 2
    /\ results[1].finding.severity = "critical"
    /\ results[2].finding.severity = "warning"

\* some with_* call recorded evidence for the source
Recorded(source) == \E i \in 1..Len(evidence) : evidence[i].source = source

\* C7: in every built report the parts, merges, mutations, disk and
\* query_log sections are present iff the builder holds a record of that
\* family at build time, and hold those records; the mv_dag section is
\* present iff with_mv_dag was called.
C7_SectionsPresence ==
    Built =>
        LET sections == report[1].sections
        IN  /\ (sections.parts # None) <=> (DOMAIN parts # {})
            /\ (sections.merges # None) <=> (DOMAIN merges # {})
            /\ (sections.mutations # None) <=> (DOMAIN mutations # {})
            /\ (sections.disk # None) <=> (Len(disk) > 0)
            /\ (sections.query_log # None) <=> (Len(queries) > 0)
            /\ (sections.mv_dag # None) <=> Recorded("system.tables")
            /\ sections.parts # None =>
                  Range(sections.parts[1]) = {parts[k] : k \in DOMAIN parts}
            /\ sections.disk # None => sections.disk[1] = disk

\* C7 witness: a report built after with_parts with no metrics and
\* with_mv_dag with a DAG without nodes: no parts section, an mv_dag section.
C7_Witness ==
    /\ Built
    /\ Recorded("system.parts")
    /\ report[1].sections.parts = None
    /\ report[1].sections.mv_dag = Some(EmptyDag)

\* the decimal digit d as a character
Digit(d) == SubSeq("0123456789", d + 1, d + 1)

\* C8: the i-th entry of the ledger has the id "ev-" followed by the three
\* decimal digits of i, record returned the id of the last entry, and the
\* built report lists the entries in the order of the ledger.
C8_EvidenceIds ==
    /\ \A i \in 1..Len(evidence) :
          evidence[i].id
              = "ev-" \o Digit(i \div 100) \o Digit((i \div 10) % 10) \o Digit(i % 10)
    /\ Len(evidence) > 0 => lastId = evidence[Len(evidence)].id
    /\ Built => report[1].evidence = evidence

\* C8 witness: a report built of a ledger of eleven entries, the last id
\* being ev-011.
C8_Witness ==
    /\ Built
    /\ Len(report[1].evidence) = 11
    /\ report[1].evidence[9].id = "ev-009"
    /\ report[1].evidence[11].id = "ev-011"
    /\ lastId = "ev-011"

\* C9: the ledger holds one entry per with_* call made on the builder,
\* whether or not the call supplied metrics, run_rules adds none, and the
\* built report holds as many evidence entries as with_* calls were made.
C9_OneEvidencePerWith ==
    /\ Len(evidence) = nWith
    /\ Built => Len(report[1].evidence) = nWith

\* C9 witness: a report built after with_disk with no metrics, a with_parts
\* and run_rules: two evidence entries.
C9_Witness ==
    /\ Built
    /\ nWith = 2
    /\ nRun = 1
    /\ Recorded("system.disks")
    /\ disk = <<>>
    /\ Len(report[1].evidence) = 2

CollectorCalls ==
    {"ping", "system.parts", "system.merges", "system.mutations", "system.disks",
     "system.query_log", "system.tables", "system.tables dependencies"}

\* C10: when the ping or a collector returned an error, that call is the
\* last one run_audit made, run_audit has returned that error, the rules
\* were not run, no report was built and write_report was not called: the
\* file is untouched and there is no finding.
C10_ErrorAbortsRun ==
    \A i \in 1..Len(called) :
        (~called[i].ok /\ called[i].call \in CollectorCalls) =>
            /\ i = Len(called)
            /\ ret = Some(Err(called[i].err))
            /\ pc = "done"
            /\ \A j \in 1..Len(called) : called[j].call \in CollectorCalls
            /\ nRun = 0
            /\ findings = <<>>
            /\ report = None
            /\ file = [kind |-> "absent", report |-> None]

\* C10 witness: the disk collector failed after three collectors had
\* succeeded; run_audit returned its error.
C10_Witness ==
    /\ Len(called) = 5
    /\ called[5].call = "system.disks"
    /\ ~called[5].ok
    /\ Len(evidence) = 3
    /\ ret = Some(Err("Failed to execute query: system.disks"))

\* C11: in every built report critical_count is the number of findings of
\* severity critical, warning_count the number of severity warning, and
\* findings_count the length of the findings list, the sum of the two.
C11_CountsMatchFindings ==
    Built =>
        LET summary == report[1].summary
            fs == report[1].findings
            critical == {i \in 1..Len(fs) : fs[i].severity = "critical"}
            warning == {i \in 1..Len(fs) : fs[i].severity = "warning"}
        IN  /\ summary.critical_count = Cardinality(critical)
            /\ summary.warning_count = Cardinality(warning)
            /\ summary.findings_count = Len(fs)
            /\ summary.findings_count = summary.critical_count + summary.warning_count

\* C11 witness: a report built after two run_rules calls over one table with
\* 1500 active parts: two equal critical findings, both counted.
C11_Witness ==
    /\ Built
    /\ nRun = 2
    /\ Len(report[1].findings) = 2
    /\ report[1].findings[1] = report[1].findings[2]
    /\ report[1].summary.critical_count = 2
    /\ report[1].summary.findings_count = 2

\* build_dag has returned
DagBuilt == section # None

\* the edges of the dependency rows, as pairs <<from, to>>
EdgePairs == {<<RowDepKey(dependencies[i]), RowKey(dependencies[i])>> :
                  i \in 1..Len(dependencies)}

\* the pairs joined by a path of one or two edges of R
Compose(R) ==
    R \cup {<<pq[1][1], pq[2][2]>> : pq \in {x \in R \X R : x[1][2] = x[2][1]}}

\* the rows hold no cycle and no self-dependency: no table is joined to
\* itself by a path of edges (paths of up to eight edges are followed)
Acyclic == \A p \in Compose(Compose(Compose(EdgePairs))) : p[1] # p[2]

\* the keys of the nodes of the returned section
NodeKeys ==
    {TableKey(section[1].nodes[i].database, section[1].nodes[i].name) :
        i \in 1..Len(section[1].nodes)}

\* the depth the returned section gives the node with the key
NodeDepth(key) ==
    LET i == CHOOSE j \in 1..Len(section[1].nodes) :
                 TableKey(section[1].nodes[j].database, section[1].nodes[j].name) = key
    IN  section[1].nodes[i].depth

\* the nodes with an edge to the node v
Incoming(v) == {p[1] : p \in {q \in EdgePairs : q[2] = v /\ q[1] \in NodeKeys}}

\* C12: for acyclic rows, in the section build_dag returns a node without an
\* incoming edge from a node has depth 0 and every other node has the depth
\* 1 + the greatest depth of the nodes with an edge to it.
C12_DepthIsLongestPath ==
    (DagBuilt /\ Acyclic) =>
        \A v \in NodeKeys :
            NodeDepth(v) = IF Incoming(v) = {} THEN 0
                           ELSE 1 + SetMax({NodeDepth(u) : u \in Incoming(v)})

\* C13: evaluate of each default rule returns for every context, it does
\* not panic, and over a context that holds nothing it returns no result.
C13_EvaluationTotal ==
    lastRule # "none" =>
        /\ phase # "panicked"
        /\ ctx = NewContext => results = <<>>

\* C14: the ids of the rules of a registry are unique, rule_ids() holds no
\* id twice.
C14_RuleIdsUnique ==
    \A i, j \in 1..Len(rule_ids(rules)) :
        rule_ids(rules)[i] = rule_ids(rules)[j] => i = j

\* the results of the first k rules of the registry over the last context,
\* rule after rule
RECURSIVE ResultsUpTo(_, _)
ResultsUpTo(k, ords) ==
    IF k = 0 THEN <<>> ELSE ResultsUpTo(k - 1, ords) \o Evaluate(rules[k], ctx, ords)

\* the place of a default rule in the default registry
DefaultPosition(rule_id) ==
    CHOOSE i \in 1..Len(with_default_rules) : with_default_rules[i].id = rule_id

\* the findings of an earlier-registered default rule precede those of a
\* later-registered one
InRegistrationOrder(fs) ==
    \A i, j \in 1..Len(fs) :
        i < j => DefaultPosition(fs[i].rule_id) <= DefaultPosition(fs[j].rule_id)

DefaultIdsInOrder ==
    rule_ids(with_default_rules)
        = <<"parts_explosion", "merge_backlog", "disk_headroom", "query_amplification",
            "stuck_mutation">>

\* the results of the last run_rules call are the results of the rules of
\* the registry, concatenated in registration order
ResultsInRegistrationOrder ==
    (nRun >= 1 /\ phase # "panicked") =>
        \E ords \in MapOrders(ctx) : results = ResultsUpTo(Len(rules), ords)

\* C15 as claimed: the default registry holds the five rules in the order
\* parts_explosion, merge_backlog, disk_headroom, query_amplification,
\* stuck_mutation; evaluate_all returns the rules' results concatenated in
\* registration order; and in every report built with the default registry
\* the findings of an earlier-registered rule precede those of a later one.
C15_FindingsInRegistrationOrder ==
    /\ DefaultIdsInOrder
    /\ ResultsInRegistrationOrder
    /\ (Built /\ rules = with_default_rules) => InRegistrationOrder(report[1].findings)

\* C15 as amended: the same, the order of the findings of the report being
\* stated for the reports built after at most one run_rules call.
C15_OrderWithinOneRun ==
    /\ DefaultIdsInOrder
    /\ ResultsInRegistrationOrder
    /\ (Built /\ rules = with_default_rules /\ nRun <= 1)
            => InRegistrationOrder(report[1].findings)

\* C15 witness: a report built after one run_rules call with the default
\* registry over metrics that trigger all five rules: seven findings, from
\* parts_explosion first to stuck_mutation last.
C15_Witness ==
    /\ Built
    /\ rules = with_default_rules
    /\ nRun = 1
    /\ Len(report[1].findings) = 7
    /\ report[1].findings[1].rule_id = "parts_explosion"
    /\ report[1].findings[3].rule_id = "merge_backlog"
    /\ report[1].findings[7].rule_id = "stuck_mutation"

\* the prefix a default rule gives its ids
PrefixOfRule(rule_id) ==
    CASE rule_id = "parts_explosion" -> "parts"
      [] rule_id = "merge_backlog" -> "merge"
      [] rule_id = "disk_headroom" -> "disk"
      [] rule_id = "query_amplification" -> "query"
      [] rule_id = "stuck_mutation" -> "mutation"

\* C16: in the results of one evaluation of a default rule the i-th finding
\* has the id f-<prefix>-i, and its result has one action, with the id
\* a-<prefix>-i and the finding_ref f-<prefix>-i.
C16_IdsNumberedInEmissionOrder ==
    (lastRule \in DefaultRuleIds /\ phase # "panicked") =>
        \A i \in 1..Len(results) :
            /\ i < 10
            /\ results[i].finding.id = "f-" \o PrefixOfRule(lastRule) \o "-" \o Digit(i)
            /\ Len(results[i].actions) = 1
            /\ results[i].actions[1].id = "a-" \o PrefixOfRule(lastRule) \o "-" \o Digit(i)
            /\ results[i].actions[1].finding_ref = results[i].finding.id

\* C16 witness: disk_headroom was evaluated over a first disk at 20 percent,
\* which does not trigger, and a second disk at 9 percent: the one finding,
\* for the second disk, is f-disk-1 and its action a-disk-1.
C16_Witness ==
    /\ lastRule = "disk_headroom"
    /\ Len(ctx.disk) = 2
    /\ ctx.disk[1].free_percent = DISK_WARNING_PCT
    /\ ctx.disk[2].free_percent = DISK_CRITICAL_PCT - 1
    /\ Len(results) = 1
    /\ results[1].finding.target = ctx.disk[2].disk_name
    /\ results[1].finding.id = "f-disk-1"
    /\ results[1].actions[1].id = "a-disk-1"

\* C17: every result of a default rule has exactly one action, whose
\* priority is high iff the finding is critical and medium iff it is a
\* warning.
C17_PriorityFollowsSeverity ==
    (lastRule \in DefaultRuleIds /\ phase # "panicked") =>
        \A i \in 1..Len(results) :
            LET finding == results[i].finding
                action == results[i].actions[1]
            IN  /\ Len(results[i].actions) = 1
                /\ (action.priority = "high") <=> (finding.severity = "critical")
                /\ (action.priority = "medium") <=> (finding.severity = "warning")
                /\ action.priority # "low"

\* C17 witness: parts_explosion emitted a warning and a critical finding:
\* the action of the warning is medium, that of the critical one high.
C17_Witness ==
    /\ lastRule = "parts_explosion"
    /\ Len(results) = 2
    /\ \E i, j \in 1..2 :
          /\ results[i].finding.severity = "warning"
          /\ results[i].actions[1].priority = "medium"
          /\ results[j].finding.severity = "critical"
          /\ results[j].actions[1].priority = "high"

\* the message of the one finding of the last evaluation for the target t
MessageFor(t) == results[CHOOSE i \in FindingsFor(t) : TRUE].finding.message

\* C18: merge_backlog emits exactly one finding for a table iff
\* merges_in_queue > 10 or max_merge_elapsed_sec > 3600, a warning, whose
\* message names the queue and the longest merge when both hold, the queue
\* and its threshold when only the first holds, and the longest merge and
\* its threshold when only the second holds; it emits none otherwise.
C18_MergeBacklogFinding ==
    lastRule = "merge_backlog" =>
        /\ \A k \in DOMAIN ctx.merges :
              LET queue == ctx.merges[k].merges_in_queue > 10
                  elapsed == ctx.merges[k].max_merge_elapsed_sec > 3600
              IN  IF queue \/ elapsed
                  THEN /\ OneFindingFor(k, "warning")
                       /\ (queue /\ elapsed) =>
                              /\ StartsWith(MessageFor(k), "Merge queue has ")
                              /\ Contains(MessageFor(k),
                                          " items and longest merge running for ")
                       /\ (queue /\ ~elapsed) =>
                              /\ StartsWith(MessageFor(k), "Merge queue has ")
                              /\ Contains(MessageFor(k), " items (threshold: 10)")
                       /\ (~queue /\ elapsed) =>
                              /\ StartsWith(MessageFor(k), "Longest merge running for ")
                              /\ Contains(MessageFor(k), "s (threshold: 3600s)")
                  ELSE NoFindingFor(k)
        /\ \A i \in 1..Len(results) : results[i].finding.target \in DOMAIN ctx.merges

\* C18 witness: merge_backlog was evaluated over a table with 11 merges in
\* the queue and a table whose longest merge runs for 3601 s: two warnings,
\* one with the queue-only message and one with the elapsed-only message.
C18_Witness ==
    /\ lastRule = "merge_backlog"
    /\ Len(results) = 2
    /\ \E k, l \in DOMAIN ctx.merges :
          /\ ctx.merges[k].merges_in_queue = 11
          /\ ctx.merges[k].max_merge_elapsed_sec = 3600
          /\ MessageFor(k) = "Merge queue has 11 items (threshold: 10)"
          /\ ctx.merges[l].merges_in_queue = 10
          /\ ctx.merges[l].max_merge_elapsed_sec = 3601
          /\ MessageFor(l) = "Longest merge running for 3601s (threshold: 3600s)"

\* C19: stuck_mutation emits exactly one finding for a table iff
\* active_mutations > 0 and oldest_active_mutation_age_sec is present and
\* > 3600, and the finding is critical; a table with no active mutation,
\* with the age absent or with an age <= 3600 yields no finding.
C19_StuckMutationFinding ==
    lastRule = "stuck_mutation" =>
        /\ \A k \in DOMAIN ctx.mutations :
              LET active == ctx.mutations[k].active_mutations
                  age == ctx.mutations[k].oldest_active_mutation_age_sec
              IN  IF active > 0 /\ age # None /\ age[1] > 3600
                  THEN OneFindingFor(k, "critical")
                  ELSE NoFindingFor(k)
        /\ \A i \in 1..Len(results) : results[i].finding.target \in DOMAIN ctx.mutations

\* C19 witness: stuck_mutation was evaluated over a table with one active
\* mutation of age 3601 s and a table with one active mutation of age
\* 3600 s: one critical finding, for the first table.
C19_Witness ==
    /\ lastRule = "stuck_mutation"
    /\ Len(results) = 1
    /\ results[1].finding.severity = "critical"
    /\ \E k, l \in DOMAIN ctx.mutations :
          /\ ctx.mutations[k].active_mutations = 1
          /\ ctx.mutations[k].oldest_active_mutation_age_sec = Some(3601)
          /\ results[1].finding.target = k
          /\ ctx.mutations[l].active_mutations = 1
          /\ ctx.mutations[l].oldest_active_mutation_age_sec = Some(3600)

\* the SQL of the one action of a rule result
SqlOfResult(r) == r.actions[1].sql

C21_TargetWithin80Characters ==
    (lastRule = "query_amplification" /\ Len(ctx.queries) = 1 /\ Len(results) = 1) =>
        LET fp == ctx.queries[1].query_fingerprint
            target == results[1].finding.target
        IN  /\ Len(target) <= 80
            /\ IF Len(fp) <= 80
               THEN target = fp
               ELSE /\ Len(target) = 80
                    /\ target = SubSeq(fp, 1, 77) \o "..."

\* the sources of the six evidence entries of a run, in collector-call order
SourcesInCallOrder ==
    <<"system.parts", "system.merges", "system.mutations", "system.disks",
      "system.query_log", "system.tables">>

\* the calls run_audit makes before the rules, in order (the mv_dag collector
\* issues two queries)
CallsBeforeRules ==
    <<"ping", "system.parts", "system.merges", "system.mutations", "system.disks",
      "system.query_log", "system.tables", "system.tables dependencies">>

\* C22: when run_audit has returned Ok the written report holds exactly six
\* evidence entries, ev-001 system.parts, ev-002 system.merges, ev-003
\* system.mutations, ev-004 system.disks, ev-005 system.query_log and ev-006
\* system.tables, in this order; and whenever the rules have run, the ping
\* and the six collectors had all returned Ok before, in this order, and the
\* ledger held the six entries.
C22_SixEvidenceInCallOrder ==
    /\ ret = Some(Ok) =>
          /\ file.kind = "complete"
          /\ Len(file.report[1].evidence) = 6
          /\ \A i \in 1..6 :
                /\ file.report[1].evidence[i].id = "ev-00" \o Digit(i)
                /\ file.report[1].evidence[i].source = SourcesInCallOrder[i]
    /\ \A i \in 1..Len(called) :
          called[i].call = "run_rules" =>
              /\ i = Len(CallsBeforeRules) + 1
              /\ \A j \in 1..(i - 1) :
                    called[j].call = CallsBeforeRules[j] /\ called[j].ok
              /\ Len(evidence) = 6

\* C22 witness: run_audit returned Ok after the rules found something; the
\* written report has the six evidence entries.
C22_Witness ==
    /\ ret = Some(Ok)
    /\ file.kind = "complete"
    /\ Len(file.report[1].evidence) = 6
    /\ file.report[1].evidence[6].id = "ev-006"
    /\ file.report[1].evidence[6].source = "system.tables"
    /\ file.report[1].findings # <<>>
    /\ called[Len(called) - 1].call = "run_rules"

\* C23: in the section build_dag returns, max_depth is the greatest depth of
\* the nodes, and 0 when there is no node.
C23_MaxDepthOverNodes ==
    DagBuilt =>
        LET nodes == section[1].nodes
        IN  section[1].max_depth =
                IF nodes = <<>> THEN 0
                ELSE SetMax({nodes[i].depth : i \in 1..Len(nodes)})

\* the literal the report schema lists for each enum value
SchemaLiteral(variant) ==
    CASE variant = "Healthy" -> "healthy"
      [] variant = "Warning" -> "warning"
      [] variant = "Critical" -> "critical"
      [] variant = "Table" -> "table"
      [] variant = "MaterializedView" -> "materialized_view"
      [] variant = "Recommendation" -> "recommendation"
      [] variant = "DdlProposal" -> "ddl_proposal"
      [] variant = "High" -> "high"
      [] variant = "Medium" -> "medium"
      [] variant = "Low" -> "low"

\* the members of the serialized report and of its lists
JsonReport == json[1].members

JsonFinding(i) == JsonReport.findings.items[i].members

JsonAction(i) == JsonReport.actions.items[i].members

JsonNode(i) == JsonReport.sections.members.mv_dag.members.nodes.items[i].members

\* C24: in the JSON of a report every enum value is the literal the schema
\* lists for it: status healthy/warning/critical, severity warning/critical,
\* table_type table/materialized_view, action_type
\* recommendation/ddl_proposal, priority high/medium/low.
C24_EnumLiterals ==
    json # None =>
        LET r == report[1]
        IN  /\ JsonReport.summary.members.status.str = SchemaLiteral(r.summary.status)
            /\ \A i \in 1..Len(r.findings) :
                  JsonFinding(i).severity.str = SchemaLiteral(r.findings[i].severity)
            /\ \A i \in 1..Len(r.actions) :
                  /\ JsonAction(i).action_type.str = SchemaLiteral(r.actions[i].action_type)
                  /\ JsonAction(i).priority.str = SchemaLiteral(r.actions[i].priority)
            /\ r.sections.mv_dag # None =>
                  \A i \in 1..Len(r.sections.mv_dag[1].nodes) :
                      JsonNode(i).table_type.str =
                          SchemaLiteral(r.sections.mv_dag[1].nodes[i].table_type)

\* C25: parsing the JSON of a written report gives the report back, and in
\* the JSON a section that is absent, and an optional field that is absent,
\* is left out rather than written as null.
C25_JsonRoundTrip ==
    /\ parsed # None => parsed[1] = Some(file.report[1])
    /\ json # None =>
          LET r == report[1]
          IN  /\ \A k \in DOMAIN r.sections :
                    IF r.sections[k] = None
                    THEN k \notin DOMAIN JsonReport.sections.members
                    ELSE JsonReport.sections.members[k].tag = "object"
              /\ \A i \in 1..Len(r.actions) :
                    IF r.actions[i].sql = None
                    THEN "sql" \notin DOMAIN JsonAction(i)
                    ELSE JsonAction(i).sql.tag = "string"
              /\ r.sections.parts # None =>
                    \A i \in 1..Len(r.sections.parts[1].tables) :
                        (r.sections.parts[1].tables[i].oldest_part = None)
                            <=> ("oldest_part" \notin DOMAIN
                                    JsonReport.sections.members.parts.members.tables.items[i].members)

\* C26: write_report replaces the file atomically: once the path holds a
\* complete report it holds a complete report at every later point, the
\* previous one or the new one, also when the write fails part-way.
C26_AtomicReplace ==
    [][file.kind = "complete" =>
          /\ file'.kind = "complete"
          /\ file'.report \in {file.report, report}]_vars

\* the tables of the scan: those with a table row and those a dependency row
\* names as the dependent table
ScanNodes == TableKeys(tables) \cup DOMAIN DependsOn(dependencies)

\* C27: the depth relaxation terminates for every input, cycles and
\* self-dependencies included: after as many full passes as there are tables
\* (and at least one) the loop is over, no depth has changed in the last
\* pass and no further pass is made.
C27_ScanTerminates ==
    (section = None /\ passes >= 1 /\ passes >= Cardinality(ScanNodes)) => ~changed

\* what the builder stores of the collectors: the metrics and the ledger
StoredMetrics == <<parts, merges, mutations, disk, queries, mv_dag>>

\* the context holds the records the builder stores now: no with_* call has
\* changed them since run_rules built it
ContextIsCurrent ==
    /\ ctx.parts = parts
    /\ ctx.merges = merges
    /\ ctx.mutations = mutations
    /\ ctx.disk = disk
    /\ ctx.queries = queries

\* C28: a with_* call leaves findings and actions unchanged (and adds to the
\* evidence); run_rules leaves the stored metrics and the evidence ledger
\* unchanged and evaluates the context of the metrics stored when it is
\* called; and a report built after one run_rules call that followed the
\* last change of the metrics holds exactly the findings and actions of that
\* evaluation over the records of its own sections.
C28_RunRulesFrame ==
    /\ [][/\ nWith' = nWith + 1 =>
                /\ findings' = findings
                /\ actions' = actions
                /\ Len(evidence') = Len(evidence) + 1
          /\ nRun' = nRun + 1 =>
                /\ StoredMetrics' = StoredMetrics
                /\ evidence' = evidence
                /\ ctx'.parts = parts /\ ctx'.merges = merges
                /\ ctx'.mutations = mutations
                /\ ctx'.disk = disk /\ ctx'.queries = queries]_vars
    /\ []((Built /\ nRun = 1 /\ ContextIsCurrent) =>
            /\ report[1].findings = FindingsOf(results)
            /\ report[1].actions = ActionsOf(results)
            /\ \E registry \in Registries, ords \in MapOrders(ctx) :
                  results = evaluate_all(registry, ctx, ords)
            /\ report[1].sections.disk = VecSection(ctx.disk)
            /\ report[1].sections.query_log = VecSection(ctx.queries)
            /\ \A k \in DOMAIN ctx.parts :
                  \E i \in 1..Len(report[1].sections.parts[1]) :
                      report[1].sections.parts[1][i] = ctx.parts[k])

\* C28 witness: a report built after with_* calls and one run_rules call that
\* found something over the current metrics.
C28_Witness ==
    /\ Built
    /\ nRun = 1
    /\ nWith >= 1
    /\ ContextIsCurrent
    /\ report[1].findings # <<>>
    /\ report[1].findings = FindingsOf(results)

\* a report whose findings are not those of its sections: a with_* call
\* after the only run_rules call brought a table with 1500 active parts
StaleFindings ==
    /\ Built
    /\ nRun = 1
    /\ ~ContextIsCurrent
    /\ report[1].findings = <<>>
    /\ \E k \in DOMAIN parts : parts[k].active_parts > PARTS_CRITICAL

\* the records supplied so far by the calls named call, in the order supplied
RECURSIVE SuppliedBy(_, _)
SuppliedBy(call, n) ==
    IF n = 0 THEN <<>>
    ELSE SuppliedBy(call, n - 1)
            \o (IF called[n].call = call THEN called[n].metrics ELSE <<>>)

\* the list the last call named call supplied, the empty list without a call
LastSupplied(call) ==
    LET calls == {n \in 1..Len(called) : called[n].call = call}
    IN  IF calls = {} THEN <<>>
        ELSE called[CHOOSE n \in calls : \A m \in calls : m <= n].metrics

\* the map holds one record per key of the records, the last one with the key
LastWriterWins(map, records) ==
    /\ DOMAIN map = {TableKey(records[i].database, records[i].table) : i \in 1..Len(records)}
    /\ \A i \in 1..Len(records) :
          LET key == TableKey(records[i].database, records[i].table)
          IN  (\A j \in (i + 1)..Len(records) :
                    TableKey(records[j].database, records[j].table) # key)
                => map[key] = records[i]

\* C29: after any sequence of with_* calls parts, merges and mutations hold
\* one record per "db.table" key of the records supplied by all calls so
\* far, the last one supplied for the key; disk and queries are the list the
\* most recent call supplied; and the context run_rules has just built holds
\* the same keys and records.
C29_StoredData ==
    /\ LastWriterWins(parts, SuppliedBy("with_parts", Len(called)))
    /\ LastWriterWins(merges, SuppliedBy("with_merges", Len(called)))
    /\ LastWriterWins(mutations, SuppliedBy("with_mutations", Len(called)))
    /\ disk = LastSupplied("with_disk")
    /\ queries = LastSupplied("with_queries")
    /\ (called # <<>> /\ called[Len(called)].call = "run_rules") =>
          /\ ctx.parts = parts
          /\ ctx.merges = merges
          /\ ctx.mutations = mutations
          /\ ctx.disk = disk
          /\ ctx.queries = queries

\* C29 witness: three with_parts calls; the second supplied two records for
\* events, the third one for events and one for logs: events holds the
\* record of the third call, logs was added.
C29_Witness ==
    /\ Len(called) = 3
    /\ called[1].metrics = <<PartsMetrics("testdb", "events", 100)>>
    /\ called[2].metrics = <<PartsMetrics("testdb", "events", 1500),
                             PartsMetrics("testdb", "events", 100)>>
    /\ called[3].metrics = <<PartsMetrics("testdb", "events", 500),
                             PartsMetrics("testdb", "logs", 1500)>>
    /\ DOMAIN parts = {"testdb.events", "testdb.logs"}
    /\ parts["testdb.events"].active_parts = 500

\* C30: in run_audit the ping is the first call and the only ping; it
\* succeeds iff its query returned a row with the value 1; every collector
\* call comes after a successful ping; and when the ping failed run_audit
\* has returned its error with no further call made, no evidence recorded
\* and no report built or written.
C30_PingFirst ==
    called # <<>> =>
        /\ called[1].call = "ping"
        /\ called[1].ok <=> (~called[1].answer.failed /\ called[1].answer.result = 1)
        /\ \A i \in 2..Len(called) : called[i].call # "ping" /\ called[1].ok
        /\ ~called[1].ok =>
              /\ Len(called) = 1
              /\ pc = "done"
              /\ ret = Some(Err(called[1].err))
              /\ evidence = <<>>
              /\ nWith = 0
              /\ nRun = 0
              /\ report = None
              /\ file.kind = "absent"

\* C30 witness: the server answered the ping with 0; run_audit returned the
\* error of the ping and nothing else was called.
C30_Witness ==
    /\ Len(called) = 1
    /\ called[1].call = "ping"
    /\ called[1].answer = [failed |-> FALSE, result |-> 0]
    /\ ~called[1].ok
    /\ ret = Some(Err("Unexpected ping result: 0"))
    /\ pc = "done"
    /\ evidence = <<>>

====
